---- MODULE Spec2Model ----
(***************************************************************************)
(* A model of mobile-mcp's device automation layer.                        *)
(*                                                                         *)
(*   SpecIos      IosRobot (src/src/ios.ts): the readiness sequence        *)
(*                OS-version query -> tunnel probe -> port-forward probe   *)
(*                -> agent liveness -> request, one await per step, with   *)
(*                the host's ports changing between any two steps.         *)
(*   SpecAndroid  AndroidRobot (src/unnamed/part_000): swipe,              *)
(*                swipeFromCoordinate, pressButton, and the server's       *)
(*                mobile_swipe_on_screen tool in front of them.            *)
(***************************************************************************)
EXTENDS Integers, Sequences, FiniteSets, TLC

VARIABLES
    \* ---- IosRobot and the host it runs on
    deviceVersion,    \* ProductVersion the device reports, a sequence of characters
    tunnelUp,         \* something listens on IOS_TUNNEL_PORT
    forwardUp,        \* something listens on WDA_PORT
    agentLive,        \* WebDriverAgent answers its status endpoint
    iosPc,            \* where the current IosRobot call stands
    iosOp,            \* the Robot operation being executed
    iosLog,           \* what this call has done so far, in order
    iosResult,        \* how the call ended
    versionQueries,   \* `ios info` runs since the IosRobot was constructed
    \* ---- AndroidRobot and its device
    screenSize,       \* what `wm size` reports
    andCall,          \* the last operation and its arguments
    adbLog,           \* the adb commands that operation issued, in order
    andResult,        \* how it ended
    packages,         \* the packages installed on the Android device
    \* ---- the UI hierarchy of the Android device and its flattening
    hierarchy,        \* the parsed uiautomator dump: parent and attributes of each node
    elements,         \* what collectElements returned for it
    collected,        \* how getElementsOnScreen ended, if it was called
    calls,            \* the calls of getElementsOnScreen since the screen last changed
    \* ---- the MCP server
    robot,            \* the selected device, or none
    srvCall,          \* the tool being invoked and its inputs
    srvLog,           \* the calls the handler made on the robot and on the host
    srvOut,           \* what the handler handed back
    selCall,          \* the device-listing tool being invoked and what the host has running
    selOut,           \* the host commands it ran and what it handed back
    \* ---- AndroidDeviceManager
    pmLines,          \* the lines `pm list features` prints on the device
    devType,          \* what getDeviceType made of them
    \* ---- Simctl and the simulator it drives
    simLive,          \* WebDriverAgent answers its status endpoint on WDA_PORT
    simApps,          \* the bundle identifiers `simctl listapps` reports
    simPc,            \* where the current Simctl call stands
    simOp,            \* the Robot operation being executed
    simLog,           \* what this call has done so far, in order
    simNow,           \* milliseconds since startWda computed its deadline
    simPolledAt,      \* simNow when the polling loop last queried the agent
    simResult,        \* how the call ended
    \* ---- AndroidRobot.getUiAutomatorDump
    dumpPc,           \* where the current call stands
    dumpTries,        \* the loop variable `tries`
    dumpLog,          \* the outputs of `uiautomator dump` in this call, in order
    dumpResult        \* how the call ended

iosVars == <<deviceVersion, tunnelUp, forwardUp, agentLive, iosPc, iosOp, iosLog,
             iosResult, versionQueries>>
andVars == <<screenSize, andCall, adbLog, andResult, packages>>
uiVars == <<hierarchy, elements, collected, calls>>
srvVars == <<robot, srvCall, srvLog, srvOut, selCall, selOut>>
mgrVars == <<pmLines, devType>>
simVars == <<simLive, simApps, simPc, simOp, simLog, simNow, simPolledAt, simResult>>
dumpVars == <<dumpPc, dumpTries, dumpLog, dumpResult>>
vars == <<iosVars, andVars, uiVars, srvVars, mgrVars, simVars, dumpVars>>
\* What the actions of one component leave alone.
iosOthers == <<andVars, uiVars, srvVars, mgrVars, simVars, dumpVars>>
andOthers == <<iosVars, uiVars, srvVars, mgrVars, simVars, dumpVars>>
uiOthers == <<iosVars, andVars, srvVars, mgrVars, simVars, dumpVars>>
srvOthers == <<iosVars, andVars, uiVars, mgrVars, simVars, dumpVars>>
mgrOthers == <<iosVars, andVars, uiVars, srvVars, simVars, dumpVars>>
simOthers == <<iosVars, andVars, uiVars, srvVars, mgrVars, dumpVars>>
dumpOthers == <<iosVars, andVars, uiVars, srvVars, mgrVars, simVars>>

(***************************************************************************)
(* Bounds of the model.                                                    *)
(***************************************************************************)
MaxVersionQueries == 3
MaxDim == 5
MaxDist == 3

(***************************************************************************)
(* Results of an operation.                                                *)
(***************************************************************************)
NoResult == [kind |-> "none", msg |-> <<>>]
Ok == [kind |-> "ok", msg |-> <<>>]
ActionableError(msg) == [kind |-> "ActionableError", msg |-> msg]
RawError(msg) == [kind |-> "Error", msg |-> msg]

(***************************************************************************)
(* IosRobot                                                                *)
(***************************************************************************)
WDA_PORT == 8100
IOS_TUNNEL_PORT == 60105

TunnelMsg == <<"iOS tunnel is not running, please see https://github.com/mobile-next/mobile-mcp/wiki/">>
ForwardMsg == <<"Port forwarding to WebDriverAgent is not running (tunnel okay), please see https://github.com/mobile-next/mobile-mcp/wiki/">>
WdaMsg == <<"WebDriverAgent is not running on device (tunnel okay, port forwarding okay), please see https://github.com/mobile-next/mobile-mcp/wiki/">>
PostureMsg == <<"Posture changing is not supported for iOS">>
TestflightMsg == <<"You must provide testflightUrl to install an app on iOS device via TestFlight.">>

\* The operations that go through wda() before their request.
AgentOps == {"getScreenSize", "swipe", "swipeFromCoordinate", "openUrl", "sendKeys",
             "pressButton", "tap", "getElementsOnScreen", "getScreenshot",
             "setOrientation", "getOrientation"}
\* The operations that call assertTunnelRunning() and then go-ios.
GoIosOps == {"listApps", "launchApp", "terminateApp", "uninstallApp"}
IosOps == AgentOps \cup GoIosOps \cup {"installApp", "installAppNoUrl", "changeDevicePosture"}

\* ProductVersion strings, character by character.
Versions == { <<"9", ".", "3", ".", "5">>,
              <<"1", "6", ".", "7", ".", "2">>,
              <<"1", "7">>,
              <<"1", "7", ".", "0">>,
              <<"1", "8", ".", "1">>,
              <<"2", "6", ".", "0">>,
              <<>>,
              <<"b", "e", "t", "a">> }

\* What one run of `ios --udid <id> info` can give getIosVersion.
InfoOutcomes == {"ok", "execFail", "badJson", "noProductVersion"}

Digits == {"0", "1", "2", "3", "4", "5", "6", "7", "8", "9"}
DigitVal(c) == CASE c = "0" -> 0 [] c = "1" -> 1 [] c = "2" -> 2 [] c = "3" -> 3
                 [] c = "4" -> 4 [] c = "5" -> 5 [] c = "6" -> 6 [] c = "7" -> 7
                 [] c = "8" -> 8 [] c = "9" -> 9

\* version.split(".")[0]: the characters before the first "."
RECURSIVE SplitFirst(_)
SplitFirst(s) == IF s = <<>> \/ Head(s) = "." THEN <<>>
                 ELSE <<Head(s)>> \o SplitFirst(Tail(s))

\* parseInt(s, 10): the value of the leading decimal digits, NaN without any.
RECURSIVE ParseDigits(_, _)
ParseDigits(s, acc) == IF s = <<>> \/ Head(s) \notin Digits THEN acc
                       ELSE ParseDigits(Tail(s), 10 * acc + DigitVal(Head(s)))
parseInt(s) == IF s = <<>> \/ Head(s) \notin Digits THEN [nan |-> TRUE, val |-> 0]
               ELSE [nan |-> FALSE, val |-> ParseDigits(s, 0)]

\* A mutant: the tunnel is required from iOS 18 on.
isTunnelRequired_From18(version) ==
    LET n == parseInt(SplitFirst(version)) IN ~n.nan /\ n.val >= 18

\* parseInt(args[0], 10) >= 17; a comparison with NaN is false.
isTunnelRequired(version) ==
    LET n == parseInt(SplitFirst(version)) IN ~n.nan /\ n.val >= 17

Event(ev, ok, req) == [ev |-> ev, ok |-> ok, req |-> req]

\* A mutant: wda() trusts the port forward and goes straight to the liveness query.
AfterTunnel_SkipForward(op) ==
    IF op \in AgentOps \cup {"installApp"} THEN "status" ELSE "goios"

\* What follows assertTunnelRunning() in the operation's body.
AfterTunnel(op) ==
    IF op \in AgentOps \cup {"installApp"} THEN "forward" ELSE "goios"

\* assertTunnelRunning() with the tunnel port closed.
TunnelDown(op) == [pc |-> "done", result |-> ActionableError(TunnelMsg)]

\* A mutant: a closed forward port does not stop wda().
ForwardDown_GoOn == [pc |-> "status", result |-> NoResult]

\* wda() with the WebDriverAgent port closed.
ForwardDown == [pc |-> "done", result |-> ActionableError(ForwardMsg)]

IosInit ==
    /\ deviceVersion \in Versions
    /\ tunnelUp \in BOOLEAN
    /\ forwardUp \in BOOLEAN
    /\ agentLive \in BOOLEAN
    /\ iosPc = "idle"
    /\ iosOp = "none"
    /\ iosLog = <<>>
    /\ iosResult = NoResult
    /\ versionQueries = 0

IosIdle ==
    /\ deviceVersion = <<>>
    /\ tunnelUp = FALSE
    /\ forwardUp = FALSE
    /\ agentLive = FALSE
    /\ iosPc = "idle"
    /\ iosOp = "none"
    /\ iosLog = <<>>
    /\ iosResult = NoResult
    /\ versionQueries = 0

\* The tunnel, the port forward and the agent are run by the user, outside the server.
EnvChange ==
    /\ \/ tunnelUp' = ~tunnelUp /\ UNCHANGED <<forwardUp, agentLive>>
       \/ forwardUp' = ~forwardUp /\ UNCHANGED <<tunnelUp, agentLive>>
       \/ agentLive' = ~agentLive /\ UNCHANGED <<tunnelUp, forwardUp>>
    /\ UNCHANGED <<deviceVersion, iosPc, iosOp, iosLog, iosResult, versionQueries>>
    /\ UNCHANGED iosOthers

\* A caller invokes an operation of the Robot contract on the IosRobot.
IosCall(op) ==
    /\ iosPc \in {"idle", "done"}
    /\ versionQueries < MaxVersionQueries
    /\ iosOp' = op
    /\ iosLog' = <<>>
    /\ CASE op = "changeDevicePosture" ->
              iosPc' = "done" /\ iosResult' = ActionableError(PostureMsg)
         [] op = "installAppNoUrl" ->
              iosPc' = "done" /\ iosResult' = ActionableError(TestflightMsg)
         [] OTHER ->
              iosPc' = "info" /\ iosResult' = NoResult
    /\ UNCHANGED <<deviceVersion, tunnelUp, forwardUp, agentLive, versionQueries>>
    /\ UNCHANGED iosOthers

\* The optional operations of the Robot contract that IosRobot does not define.
UndefinedIosOps == {"startVideoRecording", "stopVideoRecording"}
NotAFunctionMsg(method) == <<"robot.", method, " is not a function">>

\* A caller invokes one of them on the IosRobot: calling undefined is a TypeError.
IosCallUndefined(method) ==
    /\ iosPc \in {"idle", "done"}
    /\ iosOp' = method
    /\ iosLog' = <<>>
    /\ iosPc' = "done"
    /\ iosResult' = RawError(NotAFunctionMsg(method))
    /\ UNCHANGED <<deviceVersion, tunnelUp, forwardUp, agentLive, versionQueries>>
    /\ UNCHANGED iosOthers

IosCallUndefinedAny ==
    /\ iosPc \in {"idle", "done"}
    /\ \E method \in UndefinedIosOps : IosCallUndefined(method)

\* isTunnelRequired(): getIosVersion() runs `ios info`, parses its JSON, splits the version.
IosInfo ==
    /\ iosPc = "info"
    /\ versionQueries' = versionQueries + 1
    /\ \E out \in InfoOutcomes :
         IF out = "ok"
         THEN LET req == isTunnelRequired(deviceVersion) IN
              /\ iosLog' = Append(iosLog, Event("info", TRUE, req))
              /\ iosPc' = IF req THEN "tunnel" ELSE AfterTunnel(iosOp)
              /\ iosResult' = NoResult
         ELSE /\ iosLog' = Append(iosLog, Event("info", FALSE, FALSE))
              /\ iosPc' = "done"
              /\ iosResult' = RawError(<<out>>)
    /\ UNCHANGED <<deviceVersion, tunnelUp, forwardUp, agentLive, iosOp>>
    /\ UNCHANGED iosOthers

\* assertTunnelRunning(): isTunnelRunning() connects to IOS_TUNNEL_PORT.
IosTunnelProbe ==
    /\ iosPc = "tunnel"
    /\ iosLog' = Append(iosLog, Event("tunnel", tunnelUp, FALSE))
    /\ IF tunnelUp
       THEN iosPc' = AfterTunnel(iosOp) /\ iosResult' = NoResult
       ELSE iosPc' = TunnelDown(iosOp).pc /\ iosResult' = TunnelDown(iosOp).result
    /\ UNCHANGED <<deviceVersion, tunnelUp, forwardUp, agentLive, iosOp, versionQueries>>
    /\ UNCHANGED iosOthers

\* wda(): isWdaForwardRunning() connects to WDA_PORT.
IosForwardProbe ==
    /\ iosPc = "forward"
    /\ iosLog' = Append(iosLog, Event("forward", forwardUp, FALSE))
    /\ IF forwardUp
       THEN iosPc' = "status" /\ iosResult' = NoResult
       ELSE iosPc' = ForwardDown.pc /\ iosResult' = ForwardDown.result
    /\ UNCHANGED <<deviceVersion, tunnelUp, forwardUp, agentLive, iosOp, versionQueries>>
    /\ UNCHANGED iosOthers

\* WebDriverAgent.isRunning(): the agent's liveness endpoint answers or does not.
isRunning == agentLive

\* wda(): the liveness query.
IosStatus ==
    /\ iosPc = "status"
    /\ iosLog' = Append(iosLog, Event("status", isRunning, FALSE))
    /\ IF isRunning
       THEN iosPc' = "request" /\ iosResult' = NoResult
       ELSE iosPc' = "done" /\ iosResult' = ActionableError(WdaMsg)
    /\ UNCHANGED <<deviceVersion, tunnelUp, forwardUp, agentLive, iosOp, versionQueries>>
    /\ UNCHANGED iosOthers

\* The operation's own request to the agent (wda.tap(x, y), ...), which may fail.
IosRequest ==
    /\ iosPc = "request"
    /\ \E ok \in BOOLEAN :
         /\ iosLog' = Append(iosLog, Event("request", ok, FALSE))
         /\ iosResult' = IF ok THEN Ok ELSE RawError(<<"agent request failed">>)
    /\ iosPc' = "done"
    /\ UNCHANGED <<deviceVersion, tunnelUp, forwardUp, agentLive, iosOp, versionQueries>>
    /\ UNCHANGED iosOthers

\* The operation's own go-ios command (ios apps / launch / kill / uninstall).
IosGoIos ==
    /\ iosPc = "goios"
    /\ \E ok \in BOOLEAN :
         /\ iosLog' = Append(iosLog, Event("goios", ok, FALSE))
         /\ iosResult' = IF ok THEN Ok ELSE RawError(<<"execFail">>)
    /\ iosPc' = "done"
    /\ UNCHANGED <<deviceVersion, tunnelUp, forwardUp, agentLive, iosOp, versionQueries>>
    /\ UNCHANGED iosOthers

IosNext ==
    \/ EnvChange
    \/ \E op \in IosOps : IosCall(op)
    \/ IosCallUndefinedAny
    \/ IosInfo
    \/ IosTunnelProbe
    \/ IosForwardProbe
    \/ IosStatus
    \/ IosRequest
    \/ IosGoIos

(***************************************************************************)
(* AndroidRobot                                                            *)
(***************************************************************************)
\* An optional argument: undefined, or a value.
Undefined == <<>>
Some(v) == <<v>>

SwipeDirection == {"up", "down", "left", "right"}
\* What a caller of the Robot can pass at run time; "diagonal" is outside the type.
DirectionValues == SwipeDirection \cup {"diagonal"}

Widths == (1..MaxDim) \cup {1080}
Heights == (1..MaxDim) \cup {1920}
\* Start coordinates around a screen dimension: outside, on the edges, inside.
Coords(dim) == {-1, 0, 1, dim \div 2, dim, dim + 1}
Distances == {Undefined} \cup {Some(d) : d \in (-MaxDist..MaxDist) \cup {-2000, 2000}}

Max(a, b) == IF a >= b THEN a ELSE b
Min(a, b) == IF a <= b THEN a ELSE b

\* n >> 1 for 0 <= n < 2^31 (every integer of the model is in that range).
ShiftRight1(n) == n \div 2
\* Math.floor(n * 0.80), Math.floor(n * 0.20), Math.floor(n * 0.50), Math.floor(n * 0.3)
Floor80(n) == (8 * n) \div 10
Floor20(n) == (2 * n) \div 10
Floor50(n) == n \div 2
Floor30(n) == (3 * n) \div 10

AdbCmd(cmd, args) == [cmd |-> cmd, args |-> args]
WmSize == AdbCmd("wm size", <<>>)
InputSwipe(p) == AdbCmd("swipe", <<p.x0, p.y0, p.x1, p.y1, 1000>>)
KeyEvent(code) == AdbCmd("keyevent", <<code>>)

Points(x0, y0, x1, y1) == [ok |-> TRUE, x0 |-> x0, y0 |-> y0, x1 |-> x1, y1 |-> y1]
Unsupported == [ok |-> FALSE, x0 |-> 0, y0 |-> 0, x1 |-> 0, y1 |-> 0]
DirectionMsg(direction) == <<"Swipe direction", direction, "is not supported">>

\* A mutant: the 20% and 80% marks of the vertical swipes are exchanged.
SwipePoints_Exchanged(size, direction) ==
    LET centerX == ShiftRight1(size.width) IN
    CASE direction = "up" ->
           Points(centerX, Floor20(size.height), centerX, Floor80(size.height))
      [] direction = "down" ->
           Points(centerX, Floor80(size.height), centerX, Floor20(size.height))
      [] direction = "left" ->
           Points(Floor80(size.width), Floor50(size.height),
                  Floor20(size.width), Floor50(size.height))
      [] direction = "right" ->
           Points(Floor20(size.width), Floor50(size.height),
                  Floor80(size.width), Floor50(size.height))
      [] OTHER -> Unsupported

\* A mutant: the switch has `default:` on the "up" case.
SwipePoints_DefaultUp(size, direction) ==
    LET centerX == ShiftRight1(size.width) IN
    CASE direction = "down" ->
           Points(centerX, Floor20(size.height), centerX, Floor80(size.height))
      [] direction = "left" ->
           Points(Floor80(size.width), Floor50(size.height),
                  Floor20(size.width), Floor50(size.height))
      [] direction = "right" ->
           Points(Floor20(size.width), Floor50(size.height),
                  Floor80(size.width), Floor50(size.height))
      [] OTHER ->
           Points(centerX, Floor80(size.height), centerX, Floor20(size.height))

\* swipe(direction): the switch that computes x0, y0, x1, y1.
SwipePoints(size, direction) ==
    LET centerX == ShiftRight1(size.width) IN
    CASE direction = "up" ->
           Points(centerX, Floor80(size.height), centerX, Floor20(size.height))
      [] direction = "down" ->
           Points(centerX, Floor20(size.height), centerX, Floor80(size.height))
      [] direction = "left" ->
           Points(Floor80(size.width), Floor50(size.height),
                  Floor20(size.width), Floor50(size.height))
      [] direction = "right" ->
           Points(Floor20(size.width), Floor50(size.height),
                  Floor80(size.width), Floor50(size.height))
      [] OTHER -> Unsupported

\* distance || default: undefined and 0 are falsy.
OrDefault(distance, default) ==
    IF distance = Undefined \/ distance[1] = 0 THEN default ELSE distance[1]

\* A mutant: the end point is not clamped to the screen.
SwipeFromPoints_NoClamp(size, x, y, direction, distance) ==
    LET swipeDistanceY == OrDefault(distance, Floor30(size.height))
        swipeDistanceX == OrDefault(distance, Floor30(size.width)) IN
    CASE direction = "up" -> Points(x, y, x, y - swipeDistanceY)
      [] direction = "down" -> Points(x, y, x, y + swipeDistanceY)
      [] direction = "left" -> Points(x, y, x - swipeDistanceX, y)
      [] direction = "right" -> Points(x, y, x + swipeDistanceX, y)
      [] OTHER -> Unsupported

\* swipeFromCoordinate(x, y, direction, distance): the default distances and the switch.
SwipeFromPoints(size, x, y, direction, distance) ==
    LET defaultDistanceY == Floor30(size.height)
        defaultDistanceX == Floor30(size.width)
        swipeDistanceY == OrDefault(distance, defaultDistanceY)
        swipeDistanceX == OrDefault(distance, defaultDistanceX) IN
    CASE direction = "up" -> Points(x, y, x, Max(0, y - swipeDistanceY))
      [] direction = "down" -> Points(x, y, x, Min(size.height, y + swipeDistanceY))
      [] direction = "left" -> Points(x, y, Max(0, x - swipeDistanceX), y)
      [] direction = "right" -> Points(x, y, Min(size.width, x + swipeDistanceX), y)
      [] OTHER -> Unsupported

\* adb(...) is execFileSync: the command at position failAt of the plan exits
\* non-zero or times out, and the operation ends there with that Error.
Execute(plan, final, failAt) ==
    IF failAt \in 1..Len(plan)
    THEN [log |-> SubSeq(plan, 1, failAt), result |-> RawError(<<"adb", plan[failAt].cmd>>)]
    ELSE [log |-> plan, result |-> final]

\* getScreenSize() then the switch, then `input swipe`.
SwipeRun(points, direction, failAt) ==
    IF points.ok
    THEN Execute(<<WmSize, InputSwipe(points)>>, Ok, failAt)
    ELSE Execute(<<WmSize>>, ActionableError(DirectionMsg(direction)), failAt)

swipe(size, direction, failAt) ==
    SwipeRun(SwipePoints(size, direction), direction, failAt)

swipeFromCoordinate(size, x, y, direction, distance, failAt) ==
    SwipeRun(SwipeFromPoints(size, x, y, direction, distance), direction, failAt)

Buttons == {"BACK", "HOME", "VOLUME_UP", "VOLUME_DOWN", "ENTER", "DPAD_CENTER",
            "DPAD_UP", "DPAD_DOWN", "DPAD_LEFT", "DPAD_RIGHT"}

\* The own properties of the object literal BUTTON_MAP.
BUTTON_MAP(button) ==
    CASE button = "BACK" -> "KEYCODE_BACK"
      [] button = "HOME" -> "KEYCODE_HOME"
      [] button = "VOLUME_UP" -> "KEYCODE_VOLUME_UP"
      [] button = "VOLUME_DOWN" -> "KEYCODE_VOLUME_DOWN"
      [] button = "ENTER" -> "KEYCODE_ENTER"
      [] button = "DPAD_CENTER" -> "KEYCODE_DPAD_CENTER"
      [] button = "DPAD_UP" -> "KEYCODE_DPAD_UP"
      [] button = "DPAD_DOWN" -> "KEYCODE_DPAD_DOWN"
      [] button = "DPAD_LEFT" -> "KEYCODE_DPAD_LEFT"
      [] button = "DPAD_RIGHT" -> "KEYCODE_DPAD_RIGHT"

\* Properties every object literal inherits from Object.prototype.
ObjectPrototypeKeys == {"constructor", "toString", "valueOf", "hasOwnProperty",
                        "__proto__"}

\* What the tool's z.string() lets through to pressButton.
ButtonValues == Buttons \cup ObjectPrototypeKeys \cup {"POWER", "back", ""}

\* BUTTON_MAP[button]: an own property, else one found on the prototype chain (a
\* function or an object), else undefined.
Lookup(button) ==
    IF button \in Buttons THEN [type |-> "string", val |-> BUTTON_MAP(button)]
    ELSE IF button \in ObjectPrototypeKeys THEN [type |-> "object", val |-> button]
    ELSE [type |-> "undefined", val |-> ""]

\* !v is false for a non-empty string, a function and an object.
Truthy(v) == v.type = "object" \/ (v.type = "string" /\ v.val # "")

ButtonMsg(button) == <<"Button", button, "is not supported">>

\* pressButton(button). With an inherited property the adb argument is not a
\* string: execFileSync either rejects it (a TypeError, nothing spawned) or spawns
\* adb with the value's string form.
pressButton(button, failAt, spawns) ==
    LET v == Lookup(button) IN
    IF ~Truthy(v)
    THEN [log |-> <<>>, result |-> ActionableError(ButtonMsg(button))]
    ELSE IF v.type = "string"
    THEN Execute(<<KeyEvent(v.val)>>, Ok, failAt)
    ELSE IF spawns
    THEN Execute(<<KeyEvent("String(Object.prototype." \o v.val \o ")")>>, Ok, failAt)
    ELSE [log |-> <<>>, result |-> RawError(<<"TypeError">>)]

Call(op, direction, x, y, distance, button) ==
    [op |-> op, direction |-> direction, x |-> x, y |-> y, distance |-> distance,
     button |-> button]
NoCall == Call("none", "", Undefined, Undefined, Undefined, "")

AndInit ==
    /\ screenSize \in [width : Widths, height : Heights]
    /\ andCall = NoCall
    /\ adbLog = <<>>
    /\ andResult = NoResult
    /\ packages = {"com.android.settings"}

AndIdle ==
    /\ screenSize = [width |-> 1, height |-> 1]
    /\ andCall = NoCall
    /\ adbLog = <<>>
    /\ andResult = NoResult
    /\ packages = {}

UiIdle ==
    /\ hierarchy = <<>>
    /\ elements = <<>>
    /\ collected = "none"
    /\ calls = 0

SrvIdle ==
    /\ robot = "none"
    /\ srvCall = [tool |-> "none"]
    /\ srvLog = <<>>
    /\ srvOut = [how |-> "none"]
    /\ selCall = [tool |-> "none"]
    /\ selOut = [how |-> "none"]

\* AndroidRobot.swipe(direction)
Swipe(direction, failAt) ==
    /\ andCall = NoCall
    /\ andCall' = Call("swipe", direction, Undefined, Undefined, Undefined, "")
    /\ LET r == swipe(screenSize, direction, failAt) IN
       adbLog' = r.log /\ andResult' = r.result
    /\ UNCHANGED <<screenSize, packages>>
    /\ UNCHANGED andOthers

\* AndroidRobot.swipeFromCoordinate(x, y, direction, distance?)
SwipeFromCoordinate(x, y, direction, distance, failAt) ==
    /\ andCall = NoCall
    /\ andCall' = Call("swipeFromCoordinate", direction, Some(x), Some(y), distance, "")
    /\ LET r == swipeFromCoordinate(screenSize, x, y, direction, distance, failAt) IN
       adbLog' = r.log /\ andResult' = r.result
    /\ UNCHANGED <<screenSize, packages>>
    /\ UNCHANGED andOthers

\* The tool mobile_swipe_on_screen with an AndroidRobot selected: its schema admits
\* the four directions only, and x, y and distance are optional numbers.
MobileSwipeOnScreen(direction, x, y, distance, failAt) ==
    /\ andCall = NoCall
    /\ andCall' = Call("mobile_swipe_on_screen", direction, x, y, distance, "")
    /\ LET r == IF x # Undefined /\ y # Undefined
                THEN swipeFromCoordinate(screenSize, x[1], y[1], direction, distance, failAt)
                ELSE swipe(screenSize, direction, failAt) IN
       adbLog' = r.log /\ andResult' = r.result
    /\ UNCHANGED <<screenSize, packages>>
    /\ UNCHANGED andOthers

\* AndroidRobot.pressButton(button)
PressButton(button, failAt, spawns) ==
    /\ andCall = NoCall
    /\ andCall' = Call("pressButton", "", Undefined, Undefined, Undefined, button)
    /\ LET r == pressButton(button, failAt, spawns) IN
       adbLog' = r.log /\ andResult' = r.result
    /\ UNCHANGED <<screenSize, packages>>
    /\ UNCHANGED andOthers

\* The caller has the result; the robot keeps nothing of the call.
AndReturn ==
    /\ andCall # NoCall
    /\ andCall' = NoCall
    /\ adbLog' = <<>>
    /\ andResult' = NoResult
    /\ UNCHANGED <<screenSize, packages>>
    /\ UNCHANGED andOthers

\* A caller, with the robot idle, picks an operation and its arguments.
SwipeAny ==
    /\ andCall = NoCall
    /\ \E d \in DirectionValues, f \in 0..2 : Swipe(d, f)

SwipeFromCoordinateAny ==
    /\ andCall = NoCall
    /\ \E x \in Coords(screenSize.width), y \in Coords(screenSize.height),
          d \in DirectionValues, dist \in Distances, f \in 0..2 :
            SwipeFromCoordinate(x, y, d, dist, f)

MobileSwipeOnScreenAny ==
    /\ andCall = NoCall
    /\ \E x \in {Undefined} \cup {Some(c) : c \in Coords(screenSize.width)},
          y \in {Undefined} \cup {Some(c) : c \in Coords(screenSize.height)},
          d \in SwipeDirection, dist \in Distances, f \in 0..2 :
            MobileSwipeOnScreen(d, x, y, dist, f)

PressButtonAny ==
    /\ andCall = NoCall
    /\ \E b \in ButtonValues, f \in 0..1, spawns \in BOOLEAN : PressButton(b, f, spawns)

AndNext ==
    \/ SwipeAny
    \/ PressButtonAny
    \/ SwipeFromCoordinateAny
    \/ MobileSwipeOnScreenAny
    \/ AndReturn

(***************************************************************************)
(* AndroidRobot.sendKeys.  A text is the sequence of its UTF-16 code units. *)
(***************************************************************************)
MaxTextLen == 2

\* space, "a", DEL (the last ASCII code), U+0080 (the first beyond it), e-acute
CodeUnits == {32, 97, 127, 128, 233}
Texts == UNION {[1..n -> CodeUnits] : n \in 0..MaxTextLen}

DEVICEKIT == "com.mobilenext.devicekit"
PackageSets == {{"com.android.settings"}, {"com.android.settings", DEVICEKIT}}

\* /^[\x00-\x7F]*$/.test(text)
isAscii(text) == \A i \in 1..Len(text) : text[i] <= 127

\* text.replace(/ /g, "\\ "): a backslash (92) before every space (32)
RECURSIVE EscapeSpaces(_)
EscapeSpaces(text) ==
    IF text = <<>> THEN <<>>
    ELSE (IF Head(text) = 32 THEN <<92, 32>> ELSE <<Head(text)>>)
             \o EscapeSpaces(Tail(text))

\* Buffer.from(text): the UTF-8 bytes of the text (code units below U+0800)
RECURSIVE Utf8(_)
Utf8(text) ==
    IF text = <<>> THEN <<>>
    ELSE (IF Head(text) <= 127 THEN <<Head(text)>>
          ELSE <<192 + (Head(text) \div 64), 128 + (Head(text) % 64)>>)
             \o Utf8(Tail(text))

\* .toString("base64"), kept as the encoding's name and the bytes it encodes
Base64(bytes) == [encoding |-> "base64", bytes |-> bytes]

PmListPackages == AdbCmd("pm list packages", <<>>)
InputText(text) == AdbCmd("input text", <<text>>)
ClipboardSet(base64) == AdbCmd("devicekit.clipboard.set", <<base64>>)
ClipboardClear == AdbCmd("devicekit.clipboard.clear", <<>>)

\* listPackages(): the "package:" lines of `pm list packages`
listPackages(pkgs) == pkgs

isDeviceKitInstalled_Always(pkgs) == TRUE
isDeviceKitInstalled(pkgs) == DEVICEKIT \in listPackages(pkgs)

DeviceKitMsg == <<"Non-ASCII text is not supported on Android, please install mobilenext devicekit, see https://github.com/mobile-next/devicekit-android">>

\* sendKeys(text) on a device with the packages pkgs; every adb command is a
\* synchronous child process whose failure is thrown where it is called.
sendKeys(text, pkgs, failAt) ==
    IF text = <<>>
    THEN [log |-> <<>>, result |-> Ok]
    ELSE IF isAscii(text)
    THEN Execute(<<InputText(EscapeSpaces(text))>>, Ok, failAt)
    ELSE IF failAt = 1
    THEN Execute(<<PmListPackages>>, Ok, failAt)
    ELSE IF isDeviceKitInstalled(pkgs)
    THEN Execute(<<PmListPackages, ClipboardSet(Base64(Utf8(text))),
                   KeyEvent("KEYCODE_PASTE"), ClipboardClear>>, Ok, failAt)
    ELSE [log |-> <<PmListPackages>>, result |-> ActionableError(DeviceKitMsg)]

KeysCall(text) == [op |-> "sendKeys", text |-> text]

KeysInit ==
    /\ screenSize = [width |-> 1080, height |-> 1920]
    /\ andCall = NoCall
    /\ adbLog = <<>>
    /\ andResult = NoResult
    /\ packages \in PackageSets

\* AndroidRobot.sendKeys(text)
SendKeys(text, failAt) ==
    /\ andCall = NoCall
    /\ andCall' = KeysCall(text)
    /\ LET r == sendKeys(text, packages, failAt) IN
       adbLog' = r.log /\ andResult' = r.result
    /\ UNCHANGED <<screenSize, packages>>
    /\ UNCHANGED andOthers

SendKeysAny ==
    /\ andCall = NoCall
    /\ \E t \in Texts, f \in 0..4 : SendKeys(t, f)

\* The helper package is installed on, or removed from, the device.
PackagesChange ==
    /\ andCall = NoCall
    /\ \E ps \in PackageSets : ps # packages /\ packages' = ps
    /\ UNCHANGED <<screenSize, andCall, adbLog, andResult>>
    /\ UNCHANGED andOthers

KeysNext ==
    \/ SendKeysAny
    \/ PackagesChange
    \/ AndReturn

(***************************************************************************)
(* AndroidRobot.getElementsOnScreen: the parsed uiautomator dump and its    *)
(* flattening.  A hierarchy is the nodes 1..n, node 1 the root, each with   *)
(* its parent and its XML attributes; the children of a node are in         *)
(* document order by their number.  An attribute is Undefined when the XML  *)
(* has none, else Some of its string; bounds is a string of characters.     *)
(***************************************************************************)
MaxNodes == 3
MaxCalls == 2

Null == <<"null", "null">>
NaN == [nan |-> TRUE, val |-> 0]
Num(v) == [nan |-> FALSE, val |-> v]

Attrs(text, desc, hint, class, focused, resourceId, bounds) ==
    [text |-> text, desc |-> desc, hint |-> hint, class |-> class,
     focused |-> focused, resourceId |-> resourceId, bounds |-> bounds]

BoundsFull == <<"[", "0", ",", "0", "]", "[", "1", "0", ",", "2", "0", "]">>
BoundsZeroWidth == <<"[", "5", ",", "5", "]", "[", "5", ",", "9", "]">>
BoundsNegative == <<"[", "0", ",", "9", "]", "[", "4", ",", "3", "]">>
BoundsSmall == <<"[", "1", ",", "2", "]", "[", "3", ",", "4", "]">>
BoundsMinus == <<"[", "-", "1", ",", "0", "]", "[", "1", "0", ",", "2", "0", "]">>

\* The nodes a dump is made of here: a layout without content, nodes with text,
\* content-desc or hint and a rectangle with an area, and nodes with text whose
\* bounds are empty, inverted, missing or not of the form [l,t][r,b].
NodeAttrs == {
    Attrs(Some(""), Some(""), Undefined, Some("android.widget.FrameLayout"),
          Some("true"), Some("android:id/content"), Some(BoundsFull)),
    Attrs(Some("OK"), Some(""), Undefined, Some("android.widget.Button"),
          Some("true"), Some("com.app:id/ok"), Some(BoundsFull)),
    Attrs(Some(""), Some("Send"), Undefined, Some("android.widget.ImageView"),
          Some("false"), Some(""), Some(BoundsFull)),
    Attrs(Undefined, Undefined, Some("Search"), Undefined,
          Undefined, Undefined, Some(BoundsFull)),
    Attrs(Some("Go"), Some("Send"), Some("Search"), Some("android.widget.EditText"),
          Some("TRUE"), Some("com.app:id/go"), Some(BoundsSmall)),
    Attrs(Some("OK"), Some(""), Undefined, Some("android.widget.Button"),
          Some("true"), Some("com.app:id/ok"), Some(BoundsZeroWidth)),
    Attrs(Some("OK"), Some("Send"), Undefined, Some("android.widget.Button"),
          Some("true"), Some("com.app:id/ok"), Some(BoundsNegative)),
    Attrs(Some("OK"), Some(""), Undefined, Some("android.widget.Button"),
          Some("true"), Some("com.app:id/ok"), Undefined),
    Attrs(Some("OK"), Some(""), Undefined, Some("android.widget.Button"),
          Some("true"), Some("com.app:id/ok"), Some(BoundsMinus)) }

\* Every node but the root has a parent among the nodes before it.
Parents(n) == {p \in [1..n -> 0..n] : p[1] = 0 /\ \A i \in 2..n : p[i] \in 1..(i - 1)}
Hierarchies ==
    UNION {[parent : Parents(n), nodes : [1..n -> NodeAttrs]] : n \in 1..MaxNodes}

\* a || b on attribute values: the empty string and undefined are falsy
IsTruthy(a) == a # Undefined /\ a # Null /\ a # Some("")
Or(a, b) == IF IsTruthy(a) THEN a ELSE b

\* String(node.bounds)
String(a) == IF a = Undefined THEN <<"u", "n", "d", "e", "f", "i", "n", "e", "d">>
             ELSE a[1]

At(s, i) == IF i \in 1..Len(s) THEN s[i] ELSE ""

\* \d+ from position i on: the position after the digits
RECURSIVE DigitsEnd(_, _)
DigitsEnd(s, i) == IF At(s, i) \in Digits THEN DigitsEnd(s, i + 1) ELSE i

\* bounds.match(/^\[(\d+),(\d+)\]\[(\d+),(\d+)\]$/)?.map(Number) || []
MatchBounds(s) ==
    LET a == DigitsEnd(s, 2)
        b == DigitsEnd(s, a + 1)
        c == DigitsEnd(s, b + 2)
        e == DigitsEnd(s, c + 1)
    IN  IF /\ At(s, 1) = "[" /\ a > 2
           /\ At(s, a) = "," /\ b > a + 1
           /\ At(s, b) = "]" /\ At(s, b + 1) = "[" /\ c > b + 2
           /\ At(s, c) = "," /\ e > c + 1
           /\ At(s, e) = "]" /\ e = Len(s)
        THEN <<ParseDigits(SubSeq(s, 2, a - 1), 0), ParseDigits(SubSeq(s, a + 1, b - 1), 0),
               ParseDigits(SubSeq(s, b + 2, c - 1), 0), ParseDigits(SubSeq(s, c + 1, e - 1), 0)>>
        ELSE <<>>

\* getScreenElementRect(node): without a match left, top, right and bottom are
\* undefined, and undefined - undefined is NaN.
getScreenElementRect(node) ==
    LET m == MatchBounds(String(node.bounds)) IN
    IF m = <<>>
    THEN [x |-> Undefined, y |-> Undefined, width |-> NaN, height |-> NaN]
    ELSE [x |-> Some(m[1]), y |-> Some(m[2]),
          width |-> Num(m[3] - m[1]), height |-> Num(m[4] - m[2])]

\* v > 0 on a number: false for NaN
Positive_OrNaN(v) == v.nan \/ v.val > 0
Positive(v) == ~v.nan /\ v.val > 0

\* if (node.focused === "true") element.focused = true
WithFocused_Always(element, node) == element @@ [focused |-> node.focused = Some("true")]
WithFocused(element, node) ==
    IF node.focused = Some("true") THEN element @@ [focused |-> TRUE] ELSE element

\* if (resourceId !== null && resourceId !== "") element.identifier = resourceId:
\* a missing resource-id is undefined, passes both tests and is assigned.
WithIdentifier_Always(element, node) == element @@ [identifier |-> node.resourceId]
WithIdentifier(element, node) ==
    IF node.resourceId # Null /\ node.resourceId # Some("")
    THEN element @@ [identifier |-> node.resourceId]
    ELSE element

\* The element collectElements builds for a node with text, content-desc or hint.
Element(node) ==
    WithIdentifier(
        WithFocused([type |-> Or(node.class, Some("text")),
                     text |-> node.text,
                     label |-> Or(Or(node.desc, node.hint), Some("")),
                     rect |-> getScreenElementRect(node)],
                    node),
        node)

HasContent(node) == IsTruthy(node.text) \/ IsTruthy(node.desc) \/ IsTruthy(node.hint)

\* node.node: the children of node n, in document order
Children(h, n) == SelectSeq([i \in 1..Len(h.parent) |-> i], LAMBDA i : h.parent[i] = n)

\* What collectElements pushes for the node itself, after its children's elements.
OwnElements_First(h, n, below) ==
    LET node == h.nodes[n]
        element == Element(node) IN
    IF HasContent(node) /\ Positive(element.rect.width) /\ Positive(element.rect.height)
    THEN <<element>> \o below
    ELSE below
OwnElements(h, n, below) ==
    LET node == h.nodes[n]
        element == Element(node) IN
    IF HasContent(node) /\ Positive(element.rect.width) /\ Positive(element.rect.height)
    THEN below \o <<element>>
    ELSE below

RECURSIVE collectElements(_, _)
RECURSIVE CollectAll(_, _)
\* for (const childNode of node.node) elements.push(...this.collectElements(childNode))
CollectAll(h, kids) ==
    IF kids = <<>> THEN <<>>
    ELSE collectElements(h, Head(kids)) \o CollectAll(h, Tail(kids))

collectElements(h, n) == OwnElements(h, n, CollectAll(h, Children(h, n)))

DumpMsg == <<"Failed to get UIAutomator XML">>

UiInit ==
    /\ hierarchy \in Hierarchies
    /\ elements = <<>>
    /\ collected = "none"
    /\ calls = 0

\* getElementsOnScreen(): the dump is parsed and flattened from its root node; ten
\* dumps without a root node end it with an ActionableError.
GetElementsOnScreen_Accumulating(dumped) ==
    /\ IF dumped
       THEN elements' = elements \o collectElements(hierarchy, 1) /\ collected' = "returned"
       ELSE elements' = <<>> /\ collected' = "failed"
    /\ calls' = calls + 1
    /\ UNCHANGED hierarchy
    /\ UNCHANGED uiOthers
GetElementsOnScreen(dumped) ==
    /\ IF dumped
       THEN elements' = collectElements(hierarchy, 1) /\ collected' = "returned"
       ELSE elements' = <<>> /\ collected' = "failed"
    /\ calls' = calls + 1
    /\ UNCHANGED hierarchy
    /\ UNCHANGED uiOthers

\* A caller asks for the elements of the screen, any number of times.
GetElementsOnScreenAny ==
    /\ calls < MaxCalls
    /\ \E dumped \in BOOLEAN : GetElementsOnScreen(dumped)

\* The screen changes under a caller that has its answer: the last node of the
\* dump gets other attributes.
ScreenChange ==
    /\ collected # "none"
    /\ \E n \in {Len(hierarchy.parent)}, a \in NodeAttrs :
           /\ a # hierarchy.nodes[n]
           /\ hierarchy' = [hierarchy EXCEPT !.nodes[n] = a]
    /\ elements' = <<>>
    /\ collected' = "none"
    /\ calls' = 0
    /\ UNCHANGED uiOthers

UiNext ==
    \/ GetElementsOnScreenAny
    \/ ScreenChange

(***************************************************************************)
(* The MCP server: the selected robot, the device tools and their handlers. *)
(* A handler runs up to its next await in one step; the call it awaits is   *)
(* in srvLog, and its outcome arrives in a later step.                      *)
(***************************************************************************)
RobotKinds == {"android", "ios", "simulator"}

NoDeviceMsg == <<"No device selected. Use the mobile_use_device tool to select a device.">>
InvalidScreenshotMsg == <<"Screenshot is invalid. Please try again.">>
VideoMsg == <<"Video recording is not supported on this device type.">>
AndroidOnlyMsg == <<"This tool is only supported on Android devices.">>

\* The tools registered through the tool() wrapper that work on the robot.
WrappedDeviceTools ==
    {"mobile_list_apps", "mobile_launch_app", "mobile_terminate_app",
     "mobile_install_app", "mobile_uninstall_app", "mobile_get_screen_size",
     "mobile_click_on_screen_at_coordinates", "mobile_list_elements_on_screen",
     "mobile_press_button", "mobile_open_url", "mobile_swipe_on_screen",
     "mobile_type_keys", "mobile_save_screenshot", "mobile_set_orientation",
     "mobile_get_orientation", "mobile_change_posture",
     "mobile_start_video_recording", "mobile_stop_video_recording",
     "mobile_save_and_cleanup_video_recording"}
\* mobile_take_screenshot is registered with server.tool itself.
DeviceTools == WrappedDeviceTools \cup {"mobile_take_screenshot"}

\* What of a tool's arguments decides the calls it makes.
NoArgs == [hasXY |-> FALSE, submit |-> FALSE]
ToolArgs(t) ==
    CASE t = "mobile_swipe_on_screen" -> [hasXY : BOOLEAN, submit : {FALSE}]
      [] t = "mobile_type_keys" -> [hasXY : {FALSE}, submit : BOOLEAN]
      [] OTHER -> {NoArgs}

\* The robots with startVideoRecording and stopVideoRecording.
VideoRobots == {"android"}

\* requireRobot()
requireRobot_Lenient(r) == Ok
requireRobot(r) == IF r = "none" THEN ActionableError(NoDeviceMsg) ELSE Ok

\* The tests a handler makes on the robot between requireRobot() and its first call.
Precheck(t, r) ==
    IF t \in {"mobile_start_video_recording", "mobile_stop_video_recording"}
           /\ r \notin VideoRobots
    THEN ActionableError(VideoMsg)
    ELSE IF t = "mobile_save_and_cleanup_video_recording" /\ r # "android"
    THEN ActionableError(AndroidOnlyMsg)
    ELSE Ok

\* The methods of the robot a handler calls, in order, each awaited.
Plan(t, r, args) ==
    CASE t = "mobile_list_apps" -> <<"listApps">>
      [] t = "mobile_launch_app" -> <<"launchApp">>
      [] t = "mobile_terminate_app" -> <<"terminateApp">>
      [] t = "mobile_install_app" -> <<"installApp">>
      [] t = "mobile_uninstall_app" -> <<"uninstallApp">>
      [] t = "mobile_get_screen_size" -> <<"getScreenSize">>
      [] t = "mobile_click_on_screen_at_coordinates" -> <<"tap">>
      [] t = "mobile_list_elements_on_screen" -> <<"getElementsOnScreen">>
      [] t = "mobile_press_button" -> <<"pressButton">>
      [] t = "mobile_open_url" -> <<"openUrl">>
      [] t = "mobile_swipe_on_screen" ->
             IF args.hasXY THEN <<"swipeFromCoordinate">> ELSE <<"swipe">>
      [] t = "mobile_type_keys" ->
             IF args.submit THEN <<"sendKeys", "pressButton">> ELSE <<"sendKeys">>
      [] t = "mobile_save_screenshot" ->
             IF r = "android" THEN <<"saveScreenshotToFile">> ELSE <<"getScreenshot">>
      [] t = "mobile_set_orientation" -> <<"setOrientation">>
      [] t = "mobile_get_orientation" -> <<"getOrientation">>
      [] t = "mobile_change_posture" -> <<"changeDevicePosture">>
      [] t = "mobile_start_video_recording" -> <<"startVideoRecording">>
      [] t = "mobile_stop_video_recording" -> <<"stopVideoRecording">>
      [] t = "mobile_save_and_cleanup_video_recording" -> <<"saveAndCleanupVideoRecording">>
      [] t = "mobile_take_screenshot" -> <<"getScreenSize", "getScreenshot">>

\* Entries of srvLog: a call on a robot, a call on the host.
Backend(r, method) == [on |-> r, call |-> method]
Host(call) == [on |-> "host", call |-> call]

\* What a handler hands back: a CallToolResult, or an exception that leaves it.
NoOut == [how |-> "none"]
TextContent(text, isError) ==
    [how |-> "returned", type |-> "text", text |-> text, isError |-> isError]
ImageContent(data, mimeType) ==
    [how |-> "returned", type |-> "image", data |-> data, mimeType |-> mimeType,
     isError |-> FALSE]
Thrown(err) == [how |-> "thrown", error |-> err]

\* The tool() wrapper: the callback's string, or its exception by class.
Wrapped(outcome) ==
    CASE outcome.kind = "ok" -> TextContent(outcome.msg, FALSE)
      [] outcome.kind = "ActionableError" ->
             TextContent(outcome.msg \o <<". Please fix the issue and try again.">>, FALSE)
      [] OTHER -> TextContent(<<"Error: ">> \o outcome.msg, TRUE)

\* The catch of mobile_take_screenshot: every exception alike.
Caught(err) == TextContent(<<"Error: ">> \o err.msg, TRUE)

\* A captured image: whether it has the PNG signature and header, and the width
\* and height the header declares (unsigned).
PngDims == {0, 2, 1080}
Screenshots == [wellFormed : BOOLEAN, width : PngDims, height : PngDims]
NoScreenshot == [wellFormed |-> FALSE, width |-> 0, height |-> 0, none |-> TRUE]
Scales == {1, 2, 3}
Magick == {"absent", "works", "fails"}

\* pngSize.width <= 0 || pngSize.height <= 0
Invalid_WidthOnly(size) == size.width <= 0
Invalid(size) == size.width <= 0 \/ size.height <= 0

\* Image.fromBuffer(screenshot).resize(width).jpeg({quality}).toBuffer()
Jpeg(screenshot, width, quality) ==
    [format |-> "jpeg", of |-> screenshot, width |-> width, quality |-> quality]

\* mobile_take_screenshot from `new PNG(screenshot)` to its return or its catch.
Pipeline_NeedsMagick(screenshot, scale, magick) ==
    IF magick = "absent"
    THEN [log |-> <<Host("isImageMagickInstalled")>>,
          out |-> Caught(RawError(<<"ImageMagick is not installed">>))]
    ELSE [log |-> <<Host("PNG.getDimensions"), Host("isImageMagickInstalled"),
                    Host("Image.resize.jpeg")>>,
          out |-> ImageContent(Base64(Jpeg(screenshot, screenshot.width \div scale, 75)),
                               "image/jpeg")]
Pipeline(screenshot, scale, magick) ==
    IF ~screenshot.wellFormed
    THEN [log |-> <<Host("PNG.getDimensions")>>,
          out |-> Caught(RawError(<<"Not a valid PNG file">>))]
    ELSE IF Invalid(screenshot)
    THEN [log |-> <<Host("PNG.getDimensions")>>,
          out |-> Caught(ActionableError(InvalidScreenshotMsg))]
    ELSE IF magick = "absent"
    THEN [log |-> <<Host("PNG.getDimensions"), Host("isImageMagickInstalled")>>,
          out |-> ImageContent(Base64(screenshot), "image/png")]
    ELSE IF magick = "fails"
    THEN [log |-> <<Host("PNG.getDimensions"), Host("isImageMagickInstalled"),
                    Host("Image.resize.jpeg")>>,
          out |-> Caught(RawError(<<"Command failed: magick">>))]
    ELSE [log |-> <<Host("PNG.getDimensions"), Host("isImageMagickInstalled"),
                    Host("Image.resize.jpeg")>>,
          out |-> ImageContent(Base64(Jpeg(screenshot, screenshot.width \div scale, 75)),
                               "image/jpeg")]

\* The part of a handler after its last awaited call.
Finish(t, r, screenshot, scale, magick, written) ==
    IF t = "mobile_take_screenshot"
    THEN Pipeline(screenshot, scale, magick)
    ELSE IF t = "mobile_save_screenshot" /\ r # "android"
    THEN [log |-> <<Host("fs.writeFileSync")>>,
          out |-> IF written THEN Wrapped([kind |-> "ok", msg |-> <<"Screenshot saved">>])
                  ELSE Wrapped(RawError(<<"ENOENT">>))]
    ELSE [log |-> <<>>, out |-> Wrapped([kind |-> "ok", msg |-> <<"done", t>>])]

\* What a handler's exception becomes.
Fail(t, err) == IF t = "mobile_take_screenshot" THEN Caught(err) ELSE Wrapped(err)

SrvCall(t, args, pc, todo, scale, screenshot, magick) ==
    [tool |-> t, args |-> args, pc |-> pc, todo |-> todo, scale |-> scale,
     screenshot |-> screenshot, magick |-> magick]
NoSrvCall == [tool |-> "none"]

\* The errors a robot's method ends with.
BackendErrors == {ActionableError(<<"device is not ready">>), RawError(<<"Command failed">>)}

SrvInit ==
    /\ robot = "none"
    /\ srvCall = NoSrvCall
    /\ srvLog = <<>>
    /\ srvOut = NoOut
    /\ selCall = NoSrvCall
    /\ selOut = NoOut

\* A device tool is invoked: requireRobot(), the handler's tests on the robot, and
\* its first call. In mobile_take_screenshot requireRobot() stands before the try.
SrvInvoke(t, args) ==
    /\ srvCall = NoSrvCall
    /\ LET req == requireRobot(robot)
           pre == Precheck(t, robot)
           plan == Plan(t, robot, args) IN
       IF req # Ok
       THEN /\ srvCall' = SrvCall(t, args, "done", <<>>, 0, NoScreenshot, "")
            /\ srvLog' = <<>>
            /\ srvOut' = IF t = "mobile_take_screenshot" THEN Thrown(req) ELSE Wrapped(req)
       ELSE IF pre # Ok
       THEN /\ srvCall' = SrvCall(t, args, "done", <<>>, 0, NoScreenshot, "")
            /\ srvLog' = <<>>
            /\ srvOut' = Wrapped(pre)
       ELSE /\ srvCall' = SrvCall(t, args, "await", Tail(plan), 0, NoScreenshot, "")
            /\ srvLog' = <<Backend(robot, Head(plan))>>
            /\ srvOut' = NoOut
    /\ UNCHANGED robot
    /\ UNCHANGED <<selCall, selOut>>
    /\ UNCHANGED srvOthers

SrvInvokeAny ==
    /\ srvCall = NoSrvCall
    /\ \E t \in DeviceTools : \E args \in ToolArgs(t) : SrvInvoke(t, args)

\* The awaited call throws or rejects.
SrvBackendFails(err) ==
    /\ srvCall # NoSrvCall
    /\ srvCall.pc = "await"
    /\ srvCall' = [srvCall EXCEPT !.pc = "done", !.todo = <<>>]
    /\ srvOut' = Fail(srvCall.tool, err)
    /\ UNCHANGED <<robot, srvLog>>
    /\ UNCHANGED <<selCall, selOut>>
    /\ UNCHANGED srvOthers

SrvBackendFailsAny ==
    /\ srvCall # NoSrvCall
    /\ \E err \in BackendErrors : SrvBackendFails(err)

\* The awaited call returns: the handler makes its next call on the robot that is
\* selected now, or runs to its end.
SrvBackendReturns(scale, screenshot, magick, written) ==
    /\ srvCall # NoSrvCall
    /\ srvCall.pc = "await"
    /\ LET method == srvLog[Len(srvLog)].call
           sc == IF method = "getScreenSize" THEN scale ELSE srvCall.scale
           shot == IF method = "getScreenshot" THEN screenshot ELSE srvCall.screenshot IN
       IF srvCall.todo # <<>>
       THEN /\ srvCall' = [srvCall EXCEPT !.todo = Tail(@), !.scale = sc, !.screenshot = shot]
            /\ srvLog' = Append(srvLog, Backend(robot, Head(srvCall.todo)))
            /\ srvOut' = NoOut
       ELSE LET end == Finish(srvCall.tool, robot, shot, sc, magick, written) IN
            /\ srvCall' = [srvCall EXCEPT !.pc = "done", !.scale = sc, !.screenshot = shot,
                                          !.magick = magick]
            /\ srvLog' = srvLog \o end.log
            /\ srvOut' = end.out
    /\ UNCHANGED robot
    /\ UNCHANGED <<selCall, selOut>>
    /\ UNCHANGED srvOthers

SrvBackendReturnsAny ==
    /\ srvCall # NoSrvCall
    /\ srvCall.pc = "await"
    /\ \E scale \in Scales, screenshot \in Screenshots, magick \in Magick,
          written \in BOOLEAN : SrvBackendReturns(scale, screenshot, magick, written)

\* The caller has the result.
SrvReturn ==
    /\ srvCall # NoSrvCall
    /\ srvCall.pc = "done"
    /\ srvCall' = NoSrvCall
    /\ srvLog' = <<>>
    /\ srvOut' = NoOut
    /\ UNCHANGED robot
    /\ UNCHANGED <<selCall, selOut>>
    /\ UNCHANGED srvOthers

\* The tool mobile_use_device: the robot of the chosen type replaces the selected one.
UseDevice(deviceType) ==
    /\ robot' = deviceType
    /\ UNCHANGED <<srvCall, srvLog, srvOut>>
    /\ UNCHANGED <<selCall, selOut>>
    /\ UNCHANGED srvOthers

UseDeviceAny ==
    /\ robot \in RobotKinds \cup {"none"}
    /\ \E deviceType \in RobotKinds \ {robot} : UseDevice(deviceType)

\* What the host has running: booted simulators, connected Android devices,
\* attached iOS devices, and whether go-ios is installed.
MaxDevices == 2
Running == [simulators : 0..MaxDevices, android : 0..MaxDevices, ios : 0..MaxDevices,
            goIos : BOOLEAN]

NoDevicesMsg == <<"No devices found. Please connect a device and try again.">>
MultipleDevicesMsg == <<"Multiple devices found. Please use the mobile_list_available_devices tool to list available devices and select one.">>

\* isGoIosInstalled(): an async function; its body runs `ios version` at once,
\* and what the caller gets is the promise of the answer.
isGoIosInstalled(host) == [promise |-> TRUE, resolves |-> host.goIos]

\* !value on what isGoIosInstalled() returned: a promise is an object, never falsy
Not(value) == ~value.promise

\* IosManager.listDevices(): the devices, or the exception of `ios list`
listDevices(host) ==
    IF Not(isGoIosInstalled(host))
    THEN [log |-> <<Host("ios version")>>, ok |-> TRUE, devices |-> 0]
    ELSE IF host.goIos
    THEN [log |-> <<Host("ios version"), Host("ios list")>>, ok |-> TRUE,
          devices |-> host.ios]
    ELSE [log |-> <<Host("ios version"), Host("ios list")>>, ok |-> FALSE, devices |-> 0]

SpawnMsg == <<"spawnSync ios ENOENT">>

\* The callback of mobile_use_default_device: the robot it selects ("" for none)
\* and its string or exception.
useDefaultDevice(host) ==
    LET ios == listDevices(host)
        sum == host.simulators + host.android + ios.devices IN
    IF ~ios.ok THEN [robot |-> "", outcome |-> RawError(SpawnMsg)]
    ELSE IF sum = 0 THEN [robot |-> "", outcome |-> ActionableError(NoDevicesMsg)]
    ELSE IF sum >= 2 THEN [robot |-> "", outcome |-> ActionableError(MultipleDevicesMsg)]
    ELSE IF host.simulators = 1
    THEN [robot |-> "simulator", outcome |-> [kind |-> "ok", msg |-> <<"Selected default device">>]]
    ELSE IF host.android = 1
    THEN [robot |-> "android", outcome |-> [kind |-> "ok", msg |-> <<"Selected default device">>]]
    ELSE [robot |-> "ios", outcome |-> [kind |-> "ok", msg |-> <<"Selected default device">>]]

SelCall(t, host) == [tool |-> t, host |-> host]
SelOut(log, result) == [how |-> "returned", log |-> log, result |-> result]

\* The tool mobile_use_default_device; nothing in its handler is awaited.
UseDefaultDevice(host) ==
    /\ selCall = NoSrvCall
    /\ LET r == useDefaultDevice(host) IN
       /\ robot' = IF r.robot = "" THEN robot ELSE r.robot
       /\ selOut' = SelOut(listDevices(host).log, Wrapped(r.outcome))
    /\ selCall' = SelCall("mobile_use_default_device", host)
    /\ UNCHANGED <<srvCall, srvLog, srvOut>>
    /\ UNCHANGED srvOthers

UseDefaultDeviceAny ==
    /\ selCall = NoSrvCall
    /\ \E host \in Running : UseDefaultDevice(host)

\* The tool mobile_list_running_devices
ListRunningDevices(host) ==
    /\ selCall = NoSrvCall
    /\ LET ios == listDevices(host) IN
       selOut' = SelOut(ios.log,
                        Wrapped(IF ios.ok
                                THEN [kind |-> "ok", msg |-> <<"Found these devices:">>]
                                ELSE RawError(SpawnMsg)))
    /\ selCall' = SelCall("mobile_list_running_devices", host)
    /\ UNCHANGED <<robot, srvCall, srvLog, srvOut>>
    /\ UNCHANGED srvOthers

ListRunningDevicesAny ==
    /\ selCall = NoSrvCall
    /\ \E host \in Running : ListRunningDevices(host)

\* The caller of the listing tool has its result.
SelReturn ==
    /\ selCall # NoSrvCall
    /\ selCall' = NoSrvCall
    /\ selOut' = NoOut
    /\ UNCHANGED <<robot, srvCall, srvLog, srvOut>>
    /\ UNCHANGED srvOthers

\* The tools that list the host's devices, and selection by hand between them.
SelNext ==
    \/ UseDefaultDeviceAny
    \/ ListRunningDevicesAny
    \/ SelReturn
    \/ UseDeviceAny

SrvNext ==
    \/ SrvInvokeAny
    \/ SrvBackendFailsAny
    \/ SrvBackendReturnsAny
    \/ SrvReturn
    \/ UseDeviceAny

(***************************************************************************)
(* AndroidDeviceManager.getDeviceType over AndroidRobot.getSystemFeatures.  *)
(* A line of `pm list features` is its tag, the name after it, and whether  *)
(* white space surrounds it.                                                *)
(***************************************************************************)
MaxLines == 3

TELEVISION == "android.hardware.type.television"
LEANBACK == "android.software.leanback"
FeatureNames == {TELEVISION, LEANBACK, "android.hardware.touchscreen",
                 "android.hardware.type.television.remote"}
PmLine(pad, tag, name) == [pad |-> pad, tag |-> tag, name |-> name]
PmLineKinds ==
    {PmLine(FALSE, "feature:", n) : n \in FeatureNames}
        \cup {PmLine(TRUE, "feature:", TELEVISION), PmLine(FALSE, "package:", TELEVISION),
              PmLine(FALSE, "", "")}
PmOutputs == UNION {[1..n -> PmLineKinds] : n \in 0..MaxLines}

\* line.trim()
Trim(line) == [line EXCEPT !.pad = FALSE]

\* getSystemFeatures(): the trimmed lines that start with "feature:", without it
getSystemFeatures(lines) ==
    LET trimmed == [i \in 1..Len(lines) |-> Trim(lines[i])]
        kept == SelectSeq(trimmed, LAMBDA l : l.tag = "feature:")
    IN  [i \in 1..Len(kept) |-> kept[i].name]

\* features.includes(name)
Includes(features, name) == \E i \in 1..Len(features) : features[i] = name

\* getDeviceType(name), with `adb shell pm list features` working or failing
getDeviceType_TelevisionOnly(lines, adbOk) ==
    IF ~adbOk THEN "thrown"
    ELSE IF Includes(getSystemFeatures(lines), TELEVISION) THEN "tv" ELSE "mobile"
getDeviceType(lines, adbOk) ==
    IF ~adbOk THEN "thrown"
    ELSE LET features == getSystemFeatures(lines) IN
         IF Includes(features, LEANBACK) \/ Includes(features, TELEVISION)
         THEN "tv" ELSE "mobile"

MgrInit ==
    /\ pmLines \in PmOutputs
    /\ devType = "none"

MgrIdle ==
    /\ pmLines = <<>>
    /\ devType = "none"

\* AndroidDeviceManager.getDeviceType(name) for the device
GetDeviceType(adbOk) ==
    /\ devType' = getDeviceType(pmLines, adbOk)
    /\ UNCHANGED pmLines
    /\ UNCHANGED mgrOthers

GetDeviceTypeAny ==
    /\ devType = "none"
    /\ \E adbOk \in BOOLEAN : GetDeviceType(adbOk)

\* getConnectedDevices has its list; the next listing asks again.
MgrReturn ==
    /\ devType # "none"
    /\ devType' = "none"
    /\ UNCHANGED pmLines
    /\ UNCHANGED mgrOthers

MgrNext ==
    \/ GetDeviceTypeAny
    \/ MgrReturn

(***************************************************************************)
(* Simctl: the simulator backend. Its wda() asks the agent's liveness        *)
(* endpoint, starts the agent when it is installed and does not answer,      *)
(* polls until it answers or the deadline has passed, and asks once more.    *)
(* Time is in milliseconds and starts where startWda computes its deadline.  *)
(***************************************************************************)
WDA_RUNNER == "com.facebook.WebDriverAgentRunner.xctrunner"
WdaStartTimeout == 10000
PollSleep == 100
\* How long a slow answer of the liveness endpoint takes.
SlowAnswer == 5000
AnswerTimes == {0, SlowAnswer}
\* The clock of the model stops here.
MaxNow == WdaStartTimeout + SlowAnswer + PollSleep

SimWdaMsg == <<"WebDriverAgent is not running on simulator",
               ", please see https://github.com/mobile-next/mobile-mcp/wiki/">>

AppSets == {{}, {"com.apple.mobilesafari"}, {"com.apple.mobilesafari", WDA_RUNNER}}

SimEvent(ev, ok) == [ev |-> ev, ok |-> ok]

\* apps.map(app => app.packageName).includes(runner)
isWdaInstalled_Always(apps) == TRUE
isWdaInstalled(apps) == WDA_RUNNER \in apps

\* +new Date() < timeout
BeforeDeadline_Inclusive(now) == now <= WdaStartTimeout
BeforeDeadline(now) == now < WdaStartTimeout

Later(now, ms) == IF now + ms > MaxNow THEN MaxNow ELSE now + ms

SimInit ==
    /\ simLive \in BOOLEAN
    /\ simApps \in AppSets
    /\ simPc = "idle"
    /\ simOp = "none"
    /\ simLog = <<>>
    /\ simNow = 0
    /\ simPolledAt = 0
    /\ simResult = NoResult

SimIdle ==
    /\ simLive = FALSE
    /\ simApps = {}
    /\ simPc = "idle"
    /\ simOp = "none"
    /\ simLog = <<>>
    /\ simNow = 0
    /\ simPolledAt = 0
    /\ simResult = NoResult

\* The agent is started and stopped by the user and by `simctl launch`, outside
\* the server; its port is the same for every device of the host.
SimEnvChange ==
    /\ simPc # "idle"
    /\ simLive' = ~simLive
    /\ UNCHANGED <<simApps, simPc, simOp, simLog, simNow, simPolledAt, simResult>>
    /\ UNCHANGED simOthers

\* A caller invokes an operation that goes through wda().
SimCall(op) ==
    /\ simPc \in {"idle", "done"}
    /\ simOp' = op
    /\ simPc' = "status"
    /\ simLog' = <<>>
    /\ simNow' = 0
    /\ simPolledAt' = 0
    /\ simResult' = NoResult
    /\ UNCHANGED <<simLive, simApps>>
    /\ UNCHANGED simOthers

SimCallAny ==
    /\ simPc \in {"idle", "done"}
    /\ \E op \in AgentOps : SimCall(op)

\* wda(): the first liveness query.
SimStatus ==
    /\ simPc = "status"
    /\ simLog' = Append(simLog, SimEvent("status", simLive))
    /\ simPc' = IF simLive THEN "request" ELSE "installed"
    /\ UNCHANGED <<simLive, simApps, simOp, simNow, simPolledAt, simResult>>
    /\ UNCHANGED simOthers

\* startWda(): isWdaInstalled() over listApps(), whose simctl and plutil runs may
\* fail; without the runner startWda returns at once.
SimIsWdaInstalled(listed) ==
    /\ simPc = "installed"
    /\ IF ~listed
       THEN /\ simLog' = Append(simLog, SimEvent("listAppsFailed", FALSE))
            /\ simPc' = "done"
            /\ simResult' = RawError(<<"Command failed: xcrun simctl listapps">>)
       ELSE /\ simLog' = Append(simLog, SimEvent("listApps", isWdaInstalled(simApps)))
            /\ simPc' = IF isWdaInstalled(simApps) THEN "launch" ELSE "final"
            /\ simResult' = NoResult
    /\ UNCHANGED <<simLive, simApps, simOp, simNow, simPolledAt>>
    /\ UNCHANGED simOthers

SimIsWdaInstalledAny ==
    /\ simPc = "installed"
    /\ \E listed \in BOOLEAN : SimIsWdaInstalled(listed)

\* startWda(): `simctl launch` of the runner, and the deadline of the polling.
SimLaunch(launched) ==
    /\ simPc = "launch"
    /\ simLog' = Append(simLog, SimEvent("launch", launched))
    /\ IF launched
       THEN simPc' = "loop" /\ simResult' = NoResult
       ELSE simPc' = "done" /\ simResult' = RawError(<<"Command failed: xcrun simctl launch">>)
    /\ simNow' = 0
    /\ UNCHANGED <<simLive, simApps, simOp, simPolledAt>>
    /\ UNCHANGED simOthers

SimLaunchAny ==
    /\ simPc = "launch"
    /\ \E launched \in BOOLEAN : SimLaunch(launched)

\* startWda(): the test of the while loop and, inside it, the liveness query,
\* which takes its time to answer.
SimPoll(took) ==
    /\ simPc = "loop"
    /\ IF BeforeDeadline(simNow)
       THEN /\ simLog' = Append(simLog, SimEvent("poll", simLive))
            /\ simPolledAt' = simNow
            /\ simNow' = Later(simNow, took)
            /\ simPc' = IF simLive THEN "final" ELSE "sleep"
       ELSE /\ simPc' = "final"
            /\ UNCHANGED <<simLog, simPolledAt, simNow>>
    /\ UNCHANGED <<simLive, simApps, simOp, simResult>>
    /\ UNCHANGED simOthers

SimPollAny ==
    /\ simPc = "loop"
    /\ \E took \in AnswerTimes : SimPoll(took)

\* startWda(): setTimeout(resolve, 100)
SimSleep ==
    /\ simPc = "sleep"
    /\ simNow' = Later(simNow, PollSleep)
    /\ simPc' = "loop"
    /\ UNCHANGED <<simLive, simApps, simOp, simLog, simPolledAt, simResult>>
    /\ UNCHANGED simOthers

\* wda(): the liveness query after startWda() has returned.
SimFinal ==
    /\ simPc = "final"
    /\ simLog' = Append(simLog, SimEvent("status", simLive))
    /\ IF simLive
       THEN simPc' = "request" /\ simResult' = NoResult
       ELSE simPc' = "done" /\ simResult' = ActionableError(SimWdaMsg)
    /\ UNCHANGED <<simLive, simApps, simOp, simNow, simPolledAt>>
    /\ UNCHANGED simOthers

\* The operation's own request to the agent, which may fail.
SimRequest(ok) ==
    /\ simPc = "request"
    /\ simLog' = Append(simLog, SimEvent("request", ok))
    /\ simResult' = IF ok THEN Ok ELSE RawError(<<"agent request failed">>)
    /\ simPc' = "done"
    /\ UNCHANGED <<simLive, simApps, simOp, simNow, simPolledAt>>
    /\ UNCHANGED simOthers

SimRequestAny ==
    /\ simPc = "request"
    /\ \E ok \in BOOLEAN : SimRequest(ok)

SimNext ==
    \/ SimEnvChange
    \/ SimCallAny
    \/ SimStatus
    \/ SimIsWdaInstalledAny
    \/ SimLaunchAny
    \/ SimPollAny
    \/ SimSleep
    \/ SimFinal
    \/ SimRequestAny

(***************************************************************************)
(* AndroidRobot.getUiAutomatorDump: `uiautomator dump` is run until its     *)
(* output is without the marker of a missing root node. An output is what   *)
(* the loop looks at: whether it has the marker, and whether it has "<?xml". *)
(***************************************************************************)
MAX_TRIES == 10
DumpOutputs == [marker : BOOLEAN, xml : BOOLEAN]

\* dump.includes("null root node returned by UiTestAutomationBridge")
HasMarker(dump) == dump.marker

\* tries < 10
MoreTries_Inclusive(tries) == tries <= MAX_TRIES
MoreTries(tries) == tries < MAX_TRIES

\* What getElementsOnScreen makes of the dump it got: the parser finds a
\* hierarchy in XML, and none in anything else.
ParsedDump(dump) ==
    IF dump.xml THEN [kind |-> "ok", msg |-> <<"elements">>]
    ELSE RawError(<<"Cannot read properties of undefined (reading 'node')">>)

DumpInit ==
    /\ dumpPc = "idle"
    /\ dumpTries = 0
    /\ dumpLog = <<>>
    /\ dumpResult = NoResult

DumpIdle ==
    /\ dumpPc = "idle"
    /\ dumpTries = 0
    /\ dumpLog = <<>>
    /\ dumpResult = NoResult

\* getElementsOnScreen() is called.
DumpCall ==
    /\ dumpPc \in {"idle", "done"}
    /\ dumpPc' = "loop"
    /\ dumpTries' = 0
    /\ dumpLog' = <<>>
    /\ dumpResult' = NoResult
    /\ UNCHANGED dumpOthers

\* One pass of the for loop: its test, the run of the tool, and the look at
\* the output; after the loop, the throw.
DumpTry(ran, dump) ==
    /\ dumpPc = "loop"
    /\ IF ~MoreTries(dumpTries)
       THEN /\ dumpPc' = "done"
            /\ dumpResult' = ActionableError(DumpMsg)
            /\ UNCHANGED <<dumpTries, dumpLog>>
       ELSE IF ~ran
       THEN /\ dumpPc' = "done"
            /\ dumpResult' = RawError(<<"Command failed: adb exec-out uiautomator dump">>)
            /\ UNCHANGED <<dumpTries, dumpLog>>
       ELSE /\ dumpLog' = Append(dumpLog, dump)
            /\ IF HasMarker(dump)
               THEN /\ dumpTries' = dumpTries + 1
                    /\ dumpPc' = "loop"
                    /\ dumpResult' = NoResult
               ELSE /\ dumpTries' = dumpTries
                    /\ dumpPc' = "done"
                    /\ dumpResult' = ParsedDump(dump)
    /\ UNCHANGED dumpOthers

DumpTryAny ==
    /\ dumpPc = "loop"
    /\ \E ran \in BOOLEAN, dump \in DumpOutputs : DumpTry(ran, dump)

DumpNext ==
    \/ DumpCall
    \/ DumpTryAny

InitIos == IosInit /\ AndIdle /\ UiIdle /\ SrvIdle /\ MgrIdle /\ SimIdle /\ DumpIdle

SpecIos == InitIos /\ [][IosNext]_vars

InitAndroid == AndInit /\ IosIdle /\ UiIdle /\ SrvIdle /\ MgrIdle /\ SimIdle /\ DumpIdle

SpecAndroid == InitAndroid /\ [][AndNext]_vars

InitKeys == KeysInit /\ IosIdle /\ UiIdle /\ SrvIdle /\ MgrIdle /\ SimIdle /\ DumpIdle

SpecKeys == InitKeys /\ [][KeysNext]_vars

InitElements == UiInit /\ IosIdle /\ AndIdle /\ SrvIdle /\ MgrIdle /\ SimIdle /\ DumpIdle

SpecElements == InitElements /\ [][UiNext]_vars

InitServer == SrvInit /\ IosIdle /\ AndIdle /\ UiIdle /\ MgrIdle /\ SimIdle /\ DumpIdle

SpecServer == InitServer /\ [][SrvNext]_vars

InitManager == MgrInit /\ IosIdle /\ AndIdle /\ UiIdle /\ SrvIdle /\ SimIdle /\ DumpIdle

SpecManager == InitManager /\ [][MgrNext]_vars

SpecSelect == InitServer /\ [][SelNext]_vars

InitSimctl == SimInit /\ IosIdle /\ AndIdle /\ UiIdle /\ SrvIdle /\ MgrIdle /\ DumpIdle

SpecSimctl == InitSimctl /\ [][SimNext]_vars

InitDump == DumpInit /\ IosIdle /\ AndIdle /\ UiIdle /\ SrvIdle /\ MgrIdle /\ SimIdle

SpecDump == InitDump /\ [][DumpNext]_vars

(***************************************************************************)
(* Claims about IosRobot, checked under SpecIos.                           *)
(***************************************************************************)
Evs(log) == [i \in 1..Len(log) |-> log[i].ev]
AllOk(log) == \A i \in 1..Len(log) : log[i].ok
Count(log, ev) == Cardinality({i \in 1..Len(log) : log[i].ev = ev})
ReadinessSteps == {"info", "tunnel", "forward", "status"}

VersionsBelow17 == { <<"9", ".", "3", ".", "5">>, <<"1", "6", ".", "7", ".", "2">> }
VersionsFrom17 == { <<"1", "7">>, <<"1", "7", ".", "0">>, <<"1", "8", ".", "1">>,
                    <<"2", "6", ".", "0">> }

\* C1: a request to the agent is issued only after, in the same call and in this
\* order, the version query, the tunnel probe (when the tunnel is required), the
\* port-forward probe and the liveness query have each been made and succeeded;
\* nothing of it is taken over from an earlier call.
C1_RequestOnlyAfterReadiness ==
    \A i \in 1..Len(iosLog) :
        iosLog[i].ev = "request" =>
            LET pre == SubSeq(iosLog, 1, i - 1) IN
            /\ iosOp \in AgentOps \cup {"installApp"}
            /\ Len(pre) >= 3
            /\ AllOk(pre)
            /\ Evs(pre) = IF pre[1].req
                          THEN <<"info", "tunnel", "forward", "status">>
                          ELSE <<"info", "forward", "status">>

\* C1 witness: a later call of the session (the version was queried before) has
\* run all four readiness steps again and issued its request.
C1_Witness ==
    /\ iosOp = "tap"
    /\ versionQueries >= 2
    /\ Evs(iosLog) = <<"info", "tunnel", "forward", "status", "request">>
    /\ AllOk(iosLog)

\* C2: below iOS 17 the tunnel port is never probed and no call ends with the
\* tunnel error; from iOS 17 on every call that got the version probes the tunnel
\* port right after it, and a closed tunnel port ends the call there with the
\* ActionableError about the tunnel.
C2_TunnelOnlyFrom17 ==
    /\ deviceVersion \in VersionsBelow17 =>
           /\ Count(iosLog, "tunnel") = 0
           /\ iosPc # "tunnel"
           /\ iosResult # ActionableError(TunnelMsg)
    /\ (deviceVersion \in VersionsFrom17 /\ Len(iosLog) >= 1 /\ iosLog[1].ok) =>
           \/ iosPc = "tunnel" /\ Len(iosLog) = 1
           \/ Len(iosLog) >= 2 /\ iosLog[2].ev = "tunnel"
    /\ \A i \in 1..Len(iosLog) :
           (iosLog[i].ev = "tunnel" /\ ~iosLog[i].ok) =>
               /\ i = Len(iosLog)
               /\ iosPc = "done"
               /\ iosResult = ActionableError(TunnelMsg)

\* C2 witness: on an iOS 17 device a call found the tunnel port closed and ended.
C2_Witness ==
    /\ deviceVersion = <<"1", "7", ".", "0">>
    /\ iosPc = "done"
    /\ Evs(iosLog) = <<"info", "tunnel">>
    /\ ~iosLog[2].ok

\* C2 witness of the other half: an iOS 16 call went through with the tunnel down.
C2_WitnessBelow17 ==
    /\ deviceVersion = <<"1", "6", ".", "7", ".", "2">>
    /\ ~tunnelUp
    /\ iosResult = Ok

\* C3: a closed WebDriverAgent port ends the call with the ActionableError about
\* port forwarding; the port is probed once per call, and neither the liveness
\* query nor a request follows.
C3_ForwardDownIsFatal ==
    /\ Count(iosLog, "forward") <= 1
    /\ \A i \in 1..Len(iosLog) :
           (iosLog[i].ev = "forward" /\ ~iosLog[i].ok) =>
               /\ i = Len(iosLog)
               /\ iosPc = "done"
               /\ iosResult = ActionableError(ForwardMsg)
               /\ Count(iosLog, "status") = 0
               /\ Count(iosLog, "request") = 0

\* C3 witness: the tunnel stage passed (tunnel required and up) and the
\* WebDriverAgent port was closed.
C3_Witness ==
    /\ iosPc = "done"
    /\ Evs(iosLog) = <<"info", "tunnel", "forward">>
    /\ iosLog[2].ok
    /\ ~iosLog[3].ok

\* C4: a call that ended on a failed readiness step (version query, tunnel probe,
\* port-forward probe, liveness query) ended with an ActionableError.
C4_ReadinessFailuresActionable ==
    (/\ iosPc = "done"
     /\ Len(iosLog) >= 1
     /\ iosLog[Len(iosLog)].ev \in ReadinessSteps
     /\ ~iosLog[Len(iosLog)].ok)
        => iosResult.kind = "ActionableError"

(***************************************************************************)
(* Claims about AndroidRobot, checked under SpecAndroid.                   *)
(***************************************************************************)
SwipeCmds == {i \in 1..Len(adbLog) : adbLog[i].cmd = "swipe"}
KeyEvents == {i \in 1..Len(adbLog) : adbLog[i].cmd = "keyevent"}
InScreen(x, y) == /\ 0 <= x /\ x <= screenSize.width
                  /\ 0 <= y /\ y <= screenSize.height
Vertical(direction) == direction \in {"up", "down"}
AxisDim(direction) == IF Vertical(direction) THEN screenSize.height ELSE screenSize.width

\* The calls C5 speaks of: swipe(direction), and swipeFromCoordinate from a start
\* point inside the screen with the distance omitted or positive.
C5_Domain ==
    \/ andCall.op = "swipe"
    \/ /\ andCall.op = "swipeFromCoordinate"
       /\ InScreen(andCall.x[1], andCall.y[1])
       /\ (andCall.distance = Undefined \/ andCall.distance[1] > 0)

\* The start point is not on the screen edge the swipe moves towards.
RoomAhead ==
    CASE andCall.direction = "up" -> andCall.y[1] > 0
      [] andCall.direction = "down" -> andCall.y[1] < screenSize.height
      [] andCall.direction = "left" -> andCall.x[1] > 0
      [] andCall.direction = "right" -> andCall.x[1] < screenSize.width
      [] OTHER -> FALSE

\* When the swipe has a length: swipe(direction) on an axis of at least 2 pixels
\* (floor(0.8 d) > floor(0.2 d)); swipeFromCoordinate with room ahead and a distance
\* that is positive, an omitted one being floor(0.3 d), positive from d = 4 on.
C5_HasLength ==
    IF andCall.op = "swipe"
    THEN AxisDim(andCall.direction) >= 2
    ELSE /\ RoomAhead
         /\ (andCall.distance # Undefined \/ AxisDim(andCall.direction) >= 4)

\* C5 as stated: every swipe command of these calls has both end points on the
\* screen and an end point different from its start point.
C5_SwipeOnScreenAndNotEmpty ==
    C5_Domain =>
        \A i \in SwipeCmds :
            LET a == adbLog[i].args IN
            /\ InScreen(a[1], a[2])
            /\ InScreen(a[3], a[4])
            /\ <<a[1], a[2]>> # <<a[3], a[4]>>

\* C5 amended: both end points are on the screen, and the end point differs from
\* the start point exactly when the swipe has a length (C5_HasLength).
C5_SwipeOnScreen ==
    C5_Domain =>
        \A i \in SwipeCmds :
            LET a == adbLog[i].args IN
            /\ InScreen(a[1], a[2])
            /\ InScreen(a[3], a[4])
            /\ (<<a[1], a[2]>> # <<a[3], a[4]>>) <=> C5_HasLength

\* C5 witness: a swipe up from (540, 1) on a 1080x1920 screen was clamped to y = 0.
C5_Witness ==
    /\ screenSize = [width |-> 1080, height |-> 1920]
    /\ andCall.op = "swipeFromCoordinate"
    /\ andCall.distance = Undefined
    /\ Len(adbLog) = 2
    /\ adbLog[2] = AdbCmd("swipe", <<540, 1, 540, 0, 1000>>)

\* C6: swipe(direction) swipes between the 80% and the 20% mark of the axis, on the
\* middle of the other axis: up from (w/2, 0.8h) to (w/2, 0.2h), down the reverse,
\* left from (0.8w, h/2) to (0.2w, h/2), right the reverse, each rounded down; on
\* 1080x1920, up goes from (540, 1536) to (540, 384).
C6_SwipeEndpoints ==
    andCall.op = "swipe" =>
        LET w == screenSize.width
            h == screenSize.height
            d == andCall.direction IN
        /\ \A i \in SwipeCmds :
            adbLog[i].args =
                CASE d = "up" -> <<w \div 2, (4 * h) \div 5, w \div 2, h \div 5, 1000>>
                  [] d = "down" -> <<w \div 2, h \div 5, w \div 2, (4 * h) \div 5, 1000>>
                  [] d = "left" -> <<(4 * w) \div 5, h \div 2, w \div 5, h \div 2, 1000>>
                  [] d = "right" -> <<w \div 5, h \div 2, (4 * w) \div 5, h \div 2, 1000>>
        /\ (w = 1080 /\ h = 1920 /\ d = "up") =>
               \A i \in SwipeCmds : adbLog[i].args = <<540, 1536, 540, 384, 1000>>
        /\ (d \in SwipeDirection /\ andResult = Ok) => Cardinality(SwipeCmds) = 1

\* C6 witness: swipe("up") on 1080x1920 issued its command.
C6_Witness ==
    /\ screenSize = [width |-> 1080, height |-> 1920]
    /\ andCall.op = "swipe"
    /\ andCall.direction = "up"
    /\ andResult = Ok
    /\ adbLog = <<WmSize, AdbCmd("swipe", <<540, 1536, 540, 384, 1000>>)>>

\* C7: whatever start point, direction and distance swipeFromCoordinate is given,
\* the end point keeps the start's coordinate on the other axis and lies within
\* [0, dimension] on the swipe axis.
C7_EndClampedToScreen ==
    andCall.op = "swipeFromCoordinate" =>
        \A i \in SwipeCmds :
            LET a == adbLog[i].args IN
            IF Vertical(andCall.direction)
            THEN a[3] = a[1] /\ 0 <= a[4] /\ a[4] <= screenSize.height
            ELSE a[4] = a[2] /\ 0 <= a[3] /\ a[3] <= screenSize.width

\* C8: mobile_swipe_on_screen with x and y and no distance swipes by 50% of the
\* screen dimension along the swipe axis.
C8_DefaultDistanceIsHalf ==
    (/\ andCall.op = "mobile_swipe_on_screen"
     /\ andCall.x # Undefined
     /\ andCall.y # Undefined
     /\ andCall.distance = Undefined) =>
        \A i \in SwipeCmds :
            LET x == andCall.x[1]
                y == andCall.y[1]
                half == AxisDim(andCall.direction) \div 2 IN
            adbLog[i].args =
                CASE andCall.direction = "up" -> <<x, y, x, Max(0, y - half), 1000>>
                  [] andCall.direction = "down" ->
                       <<x, y, x, Min(screenSize.height, y + half), 1000>>
                  [] andCall.direction = "left" -> <<x, y, Max(0, x - half), y, 1000>>
                  [] andCall.direction = "right" ->
                       <<x, y, Min(screenSize.width, x + half), y, 1000>>

\* C9: swipe and swipeFromCoordinate with a direction outside up, down, left,
\* right issue no swipe command and, once the screen size is read, fail with the
\* ActionableError that names the direction.
C9_UnsupportedDirection ==
    (andCall.op \in {"swipe", "swipeFromCoordinate"}
        /\ andCall.direction \notin {"up", "down", "left", "right"}) =>
        /\ SwipeCmds = {}
        /\ \/ andResult = ActionableError(<<"Swipe direction", andCall.direction,
                                            "is not supported">>)
           \/ andResult = RawError(<<"adb", "wm size">>) /\ adbLog = <<WmSize>>

\* C9 witness: swipeFromCoordinate with the direction "diagonal" was refused.
C9_Witness ==
    /\ andCall.op = "swipeFromCoordinate"
    /\ andCall.direction = "diagonal"
    /\ andResult.kind = "ActionableError"
    /\ adbLog = <<WmSize>>

\* C10: pressButton sends exactly one key event, with the button's keycode, for
\* the ten buttons of BUTTON_MAP, and for every other value fails with an
\* ActionableError without sending a key event.
C10_PressButton ==
    andCall.op = "pressButton" =>
        IF andCall.button \in Buttons
        THEN adbLog = <<KeyEvent(BUTTON_MAP(andCall.button))>>
        ELSE andResult.kind = "ActionableError" /\ KeyEvents = {}

(***************************************************************************)
(* Claims about AndroidRobot.sendKeys, checked under SpecKeys.             *)
(***************************************************************************)
Cmds(name) == {i \in 1..Len(adbLog) : adbLog[i].cmd = name}
TypingCmds == Cmds("input text") \cup Cmds("devicekit.clipboard.set")
                  \cup Cmds("devicekit.clipboard.clear") \cup Cmds("keyevent")

\* C11: sendKeys of a text with a non-ASCII character, on a device without
\* com.mobilenext.devicekit, issues no text-input, clipboard or key-event command,
\* and once the package list is read it fails with the ActionableError that names
\* the missing helper.
C11_NoHelperNothingTyped ==
    (/\ andCall.op = "sendKeys"
     /\ ~isAscii(andCall.text)
     /\ DEVICEKIT \notin packages) =>
        /\ TypingCmds = {}
        /\ \/ andResult = ActionableError(DeviceKitMsg) /\ adbLog = <<PmListPackages>>
           \/ andResult = RawError(<<"adb", "pm list packages">>)

\* C11 witness: "a" followed by e-acute was refused on a device without the helper.
C11_Witness ==
    /\ andCall.op = "sendKeys"
    /\ andCall.text = <<97, 233>>
    /\ DEVICEKIT \notin packages
    /\ andResult = ActionableError(DeviceKitMsg)
    /\ adbLog = <<PmListPackages>>

\* C12: sendKeys of non-ASCII text with the helper installed issues clipboard-set,
\* the paste key event and clipboard-clear in this order, and whenever
\* clipboard-set was issued a clipboard-clear is issued after it before the call
\* ends.
C12_ClipboardCleared ==
    (andCall.op = "sendKeys" /\ ~isAscii(andCall.text) /\ DEVICEKIT \in packages) =>
        /\ \A i \in Cmds("keyevent") : i - 1 \in Cmds("devicekit.clipboard.set")
        /\ \A i \in Cmds("devicekit.clipboard.clear") : i - 1 \in Cmds("keyevent")
        /\ \A i \in Cmds("devicekit.clipboard.set") :
               \E j \in Cmds("devicekit.clipboard.clear") : j > i

(***************************************************************************)
(* Claims about the flattening of the UI hierarchy, checked under          *)
(* SpecElements.                                                           *)
(***************************************************************************)
NodeIds == 1..Len(hierarchy.parent)
NodeOf(n) == hierarchy.nodes[n]

RECURSIVE Ancestors(_)
Ancestors(n) == IF hierarchy.parent[n] = 0 THEN {}
                ELSE {hierarchy.parent[n]} \cup Ancestors(hierarchy.parent[n])
AncOrSelf(n) == {n} \cup Ancestors(n)

\* Bounds without an area, missing, or not of the form [l,t][r,b].
BadBounds == {Some(BoundsZeroWidth), Some(BoundsNegative), Some(BoundsMinus), Undefined}
NonEmpty(a) == a \notin {Undefined, Some("")}
Qualifies(n) ==
    /\ NonEmpty(NodeOf(n).text) \/ NonEmpty(NodeOf(n).desc) \/ NonEmpty(NodeOf(n).hint)
    /\ NodeOf(n).bounds \notin BadBounds
Qualifying == {n \in NodeIds : Qualifies(n)}

\* For nodes neither of which is above the other: the child of their lowest
\* common ancestor on the way down to x.
Branch(x, y) ==
    CHOOSE z \in AncOrSelf(x) : z \notin AncOrSelf(y) /\ hierarchy.parent[z] \in AncOrSelf(y)

\* a comes before b: a is below b, or a's branch comes first in document order.
Before(a, b) ==
    /\ a # b
    /\ IF b \in Ancestors(a) THEN TRUE
       ELSE IF a \in Ancestors(b) THEN FALSE
       ELSE Branch(a, b) < Branch(b, a)

Rank(n) == 1 + Cardinality({m \in Qualifying : Before(m, n)})
Get(element, key) == IF key \in DOMAIN element THEN element[key] ELSE Undefined

\* C13: every element getElementsOnScreen returns has rect.width > 0 and
\* rect.height > 0; a node whose bounds have no area, are missing or do not parse
\* adds no element whatever else it carries, and the qualifying nodes below it
\* are still returned.
C13_OnlyPositiveRects ==
    collected = "returned" =>
        /\ \A i \in 1..Len(elements) :
               /\ ~elements[i].rect.width.nan /\ elements[i].rect.width.val > 0
               /\ ~elements[i].rect.height.nan /\ elements[i].rect.height.val > 0
        /\ Len(elements) <= Cardinality({n \in NodeIds : NodeOf(n).bounds \notin BadBounds})
        /\ \A n \in NodeIds : NodeOf(n).bounds \in BadBounds =>
               \A d \in Qualifying : n \in Ancestors(d) =>
                   /\ Rank(d) <= Len(elements)
                   /\ elements[Rank(d)].text = NodeOf(d).text
                   /\ elements[Rank(d)].rect.x # Undefined

\* C13 witness: the root has text and a resource-id but no bounds attribute; its
\* child alone was returned.
C13_Witness ==
    /\ collected = "returned"
    /\ hierarchy.parent = <<0, 1>>
    /\ NodeOf(1).text = Some("OK") /\ NodeOf(1).bounds = Undefined
    /\ NodeOf(2).text = Some("Go")
    /\ Len(elements) = 1
    /\ elements[1].text = Some("Go")
    /\ elements[1].rect = [x |-> Some(1), y |-> Some(2), width |-> Num(2), height |-> Num(2)]

\* C14: an element has the key focused exactly when its node's focused attribute
\* is the string "true", and then with the value true; otherwise the key is absent.
C14_FocusedOnlyWhenTrue ==
    collected = "returned" =>
        \A n \in Qualifying :
            /\ Rank(n) <= Len(elements)
            /\ ("focused" \in DOMAIN elements[Rank(n)]) <=> (NodeOf(n).focused = Some("true"))
            /\ ("focused" \in DOMAIN elements[Rank(n)]) => elements[Rank(n)].focused = TRUE

\* C14 witness: of three returned elements the first has focused: true, the other
\* two, from nodes with focused="false" and focused="TRUE", have no such key.
C14_Witness ==
    /\ collected = "returned"
    /\ hierarchy.parent = <<0, 1, 1>>
    /\ NodeOf(2).focused = Some("true")
    /\ NodeOf(3).focused = Some("false")
    /\ NodeOf(1).focused = Some("TRUE")
    /\ Len(elements) = 3
    /\ "focused" \in DOMAIN elements[1] /\ elements[1].focused = TRUE
    /\ "focused" \notin DOMAIN elements[2]
    /\ "focused" \notin DOMAIN elements[3]

\* C15: reading identifier from an element gives the node's resource-id when that
\* is non-empty, and undefined when the resource-id is empty or missing.
C15_IdentifierFromResourceId ==
    collected = "returned" =>
        \A n \in Qualifying :
            /\ Rank(n) <= Len(elements)
            /\ Get(elements[Rank(n)], "identifier") =
                   IF NonEmpty(NodeOf(n).resourceId) THEN NodeOf(n).resourceId ELSE Undefined

\* C15 witness: three elements, from a node with a resource-id, one with an empty
\* one and one without the attribute.
C15_Witness ==
    /\ collected = "returned"
    /\ hierarchy.parent = <<0, 1, 2>>
    /\ NodeOf(3).resourceId = Some("com.app:id/ok")
    /\ NodeOf(2).resourceId = Some("")
    /\ NodeOf(1).resourceId = Undefined
    /\ Len(elements) = 3
    /\ Get(elements[1], "identifier") = Some("com.app:id/ok")
    /\ Get(elements[2], "identifier") = Undefined
    /\ Get(elements[3], "identifier") = Undefined

\* C16: collectElements returns one element for each node with non-empty text,
\* content-desc or hint and a rectangle with an area, and no other; the elements
\* of a node's children come in the children's document order before the node's
\* own, so that every returned descendant precedes its returned ancestor.
C16_ChildrenBeforeNode ==
    collected = "returned" =>
        /\ Len(elements) = Cardinality(Qualifying)
        /\ \A n \in Qualifying : elements[Rank(n)] = Element(NodeOf(n))
        /\ \A a, d \in Qualifying : a \in Ancestors(d) => Rank(d) < Rank(a)

\* C16 witness: a root with two children, all three with content and an area:
\* first child, second child, root.
C16_Witness ==
    /\ collected = "returned"
    /\ hierarchy.parent = <<0, 1, 1>>
    /\ NodeOf(1).text = Some("OK")
    /\ NodeOf(2).text = Some("") /\ NodeOf(2).desc = Some("Send")
    /\ NodeOf(3).text = Some("Go")
    /\ Len(elements) = 3
    /\ elements[1].label = Some("Send")
    /\ elements[2].text = Some("Go")
    /\ elements[3].type = Some("android.widget.Button")

HostCalls(call) == {i \in 1..Len(srvLog) : srvLog[i] = Host(call)}
BackendCalls == {i \in 1..Len(srvLog) : srvLog[i].on # "host"}
ScreenshotEnded ==
    /\ srvCall.tool = "mobile_take_screenshot"
    /\ srvCall.pc = "done"
    /\ "none" \notin DOMAIN srvCall.screenshot

\* C18: mobile_take_screenshot rejects a captured image whose header declares a
\* width or a height of 0 or less with the error "Screenshot is invalid. Please
\* try again." and never resizes or re-encodes it, with or without ImageMagick;
\* the header is read before any resize.
C18_InvalidRejectedBeforeTranscode ==
    srvCall.tool = "mobile_take_screenshot" =>
        /\ \A i \in HostCalls("Image.resize.jpeg") :
               \E j \in HostCalls("PNG.getDimensions") : j < i
        /\ (/\ ScreenshotEnded
            /\ srvCall.screenshot.wellFormed
            /\ srvCall.screenshot.width <= 0 \/ srvCall.screenshot.height <= 0) =>
               /\ HostCalls("Image.resize.jpeg") = {}
               /\ srvOut = TextContent(<<"Error: ", "Screenshot is invalid. Please try again.">>,
                                       TRUE)

\* C18 witness: with ImageMagick installed, an image of 1080x0 was rejected.
C18_Witness ==
    /\ ScreenshotEnded
    /\ srvCall.magick = "works"
    /\ srvCall.screenshot = [wellFormed |-> TRUE, width |-> 1080, height |-> 0]
    /\ srvOut.isError
    /\ srvLog[Len(srvLog)] = Host("PNG.getDimensions")

\* C19: mobile_take_screenshot without ImageMagick, on a valid captured image,
\* returns the base64 of the captured buffer itself as image/png; and an image is
\* returned as image/jpeg exactly when the resize and re-encode ran, as image/png
\* otherwise.
C19_PassThroughWithoutMagick ==
    ScreenshotEnded =>
        /\ (/\ srvCall.magick = "absent"
            /\ srvCall.screenshot.wellFormed
            /\ srvCall.screenshot.width > 0
            /\ srvCall.screenshot.height > 0) =>
               srvOut = [how |-> "returned", type |-> "image", isError |-> FALSE,
                         mimeType |-> "image/png",
                         data |-> [encoding |-> "base64", bytes |-> srvCall.screenshot]]
        /\ (srvOut.how = "returned" /\ srvOut.type = "image") =>
               /\ srvOut.mimeType \in {"image/png", "image/jpeg"}
               /\ srvOut.mimeType = "image/jpeg" <=> HostCalls("Image.resize.jpeg") # {}

\* C19 witness: a 1080x2 image came back unchanged from a host without ImageMagick.
C19_Witness ==
    /\ ScreenshotEnded
    /\ srvCall.magick = "absent"
    /\ srvCall.screenshot = [wellFormed |-> TRUE, width |-> 1080, height |-> 2]
    /\ srvOut.how = "returned"
    /\ srvOut.type = "image"
    /\ srvOut.mimeType = "image/png"

\* C20: as long as no device has been selected, an invocation of a device tool
\* makes no call on a backend or on the host and ends at once with the
\* ActionableError "No device selected...": as the returned text of the tool, or,
\* in mobile_take_screenshot, as the exception of the handler.
C20_NoDeviceNoBackendCall ==
    (robot = "none" /\ srvCall # NoSrvCall) =>
        /\ srvCall.tool \in DeviceTools
        /\ srvCall.pc = "done"
        /\ srvLog = <<>>
        /\ IF srvCall.tool = "mobile_take_screenshot"
           THEN srvOut = [how |-> "thrown",
                          error |-> [kind |-> "ActionableError",
                                     msg |-> <<"No device selected. Use the mobile_use_device tool to select a device.">>]]
           ELSE srvOut = [how |-> "returned", type |-> "text", isError |-> FALSE,
                          text |-> <<"No device selected. Use the mobile_use_device tool to select a device.",
                                     ". Please fix the issue and try again.">>]

\* C20 witness: mobile_type_keys with submit was invoked on a server without a
\* selected device.
C20_Witness ==
    /\ robot = "none"
    /\ srvCall # NoSrvCall
    /\ srvCall.tool = "mobile_type_keys"
    /\ srvCall.args.submit
    /\ srvLog = <<>>
    /\ srvOut.how = "returned"

\* C21: no invocation of a device tool ends with an exception leaving the handler;
\* an ActionableError raised while handling it (no device selected, an invalid
\* screenshot) comes back as the remediation text without isError, and a text
\* flagged isError is "Error: <message>".
C21_ClassifiedResult ==
    (srvCall # NoSrvCall /\ srvCall.pc = "done") =>
        /\ srvOut.how = "returned"
        /\ robot = "none" =>
               srvOut = [how |-> "returned", type |-> "text", isError |-> FALSE,
                         text |-> NoDeviceMsg \o <<". Please fix the issue and try again.">>]
        /\ (/\ ScreenshotEnded
            /\ srvCall.screenshot.wellFormed
            /\ srvCall.screenshot.width <= 0 \/ srvCall.screenshot.height <= 0) =>
               srvOut = [how |-> "returned", type |-> "text", isError |-> FALSE,
                         text |-> InvalidScreenshotMsg
                                      \o <<". Please fix the issue and try again.">>]
        /\ srvOut.isError => srvOut.text[1] = "Error: "

(***************************************************************************)
(* Claims about AndroidDeviceManager, checked under SpecManager.           *)
(***************************************************************************)
Reported == {pmLines[i].name : i \in {j \in 1..Len(pmLines) : pmLines[j].tag = "feature:"}}

\* C22 as stated: getDeviceType yields "tv" for a device that reports
\* android.hardware.type.television and "mobile" for every device that does not,
\* and nothing but these two.
C22_TvIffTelevision ==
    devType \notin {"none", "thrown"} =>
        /\ devType \in {"tv", "mobile"}
        /\ devType = "tv" <=> "android.hardware.type.television" \in Reported

\* C22 amended: getDeviceType yields "tv" for a device that reports
\* android.hardware.type.television or android.software.leanback and "mobile"
\* for every device that reports neither, and nothing but these two.
C22_TvIffTelevisionOrLeanback ==
    devType \notin {"none", "thrown"} =>
        /\ devType \in {"tv", "mobile"}
        /\ devType = "tv" <=>
               \/ "android.hardware.type.television" \in Reported
               \/ "android.software.leanback" \in Reported

\* C22 witness: a device that reports leanback and a touchscreen, not the
\* television type, was classified "tv".
C22_Witness ==
    /\ devType = "tv"
    /\ Reported = {"android.software.leanback", "android.hardware.touchscreen"}

(***************************************************************************)
(* Further claims about IosRobot, checked under SpecIos.                   *)
(***************************************************************************)
\* The messages of the model that contain "not supported".
NotSupportedMsgs == {<<"Video recording is not supported on this device type.">>,
                     <<"Posture changing is not supported for iOS">>}

\* C23: startVideoRecording called on an IosRobot starts no recording (nothing is
\* sent to the device) and fails with an error whose message contains
\* "not supported".
C23_VideoNotSupportedOnIos ==
    iosOp = "startVideoRecording" =>
        /\ iosLog = <<>>
        /\ iosPc = "done"
        /\ iosResult.kind \in {"ActionableError", "Error"}
        /\ iosResult.msg \in NotSupportedMsgs

\* C25: over all the operations on one IosRobot the device's version is queried
\* from go-ios (`ios info`) at most once.
C25_VersionQueriedOnce == versionQueries <= 1

(***************************************************************************)
(* Claims about the tools that list the host's devices                     *)
(***************************************************************************)
Total(host) == host.simulators + host.android + host.ios
TheOne(host) ==
    IF host.simulators = 1 THEN "simulator"
    ELSE IF host.android = 1 THEN "android" ELSE "ios"
DefaultDeviceStep ==
    /\ selCall = NoSrvCall
    /\ selCall' # NoSrvCall
    /\ selCall'.tool = "mobile_use_default_device"

\* C24: mobile_use_default_device selects a device exactly when the host has one
\* running device in all (simulators, Android devices and iOS devices together),
\* and then the robot is that device; with none or with two or more it comes back
\* with the ActionableError's remediation text and the robot is the one before.
C24_DefaultDeviceIffExactlyOne ==
    [][DefaultDeviceStep =>
          IF Total(selCall'.host) = 1
          THEN /\ robot' = TheOne(selCall'.host)
               /\ selOut'.result = TextContent(<<"Selected default device">>, FALSE)
          ELSE /\ robot' = robot
               /\ selOut'.result \in
                      {Wrapped(ActionableError(NoDevicesMsg)),
                       Wrapped(ActionableError(MultipleDevicesMsg))}]_vars

\* C30: on a host without go-ios the listing of iOS devices does not run the
\* go-ios device-list command, and neither mobile_use_default_device nor
\* mobile_list_running_devices comes back with an error.
C30_WorksWithoutGoIos ==
    (selCall # NoSrvCall /\ ~selCall.host.goIos) =>
        /\ \A i \in 1..Len(selOut.log) : selOut.log[i] # Host("ios list")
        /\ ~selOut.result.isError

\* C29: every backend call made by one invocation of a device tool goes to one
\* device, whichever device-selection tool runs while the invocation is in
\* flight: the text and the ENTER key of mobile_type_keys, the screen size and
\* the screenshot of mobile_take_screenshot.
C29_OneDevicePerInvocation ==
    \A i, j \in BackendCalls : srvLog[i].on = srvLog[j].on

(***************************************************************************)
(* Claims about Simctl's WebDriverAgent bootstrap                          *)
(***************************************************************************)
SimEvs(ev) == {i \in 1..Len(simLog) : simLog[i].ev = ev}
NotInstalledSeen == \E i \in SimEvs("listApps") : ~simLog[i].ok
LaunchedOk == \E i \in SimEvs("launch") : simLog[i].ok

\* What C26 and its amended form share: the launch command is issued at most once
\* in a call, and only right after the list of apps showed the runner, which was
\* asked for right after the call's first liveness query was negative; with the
\* agent live at the first query, or the runner not installed, there is no launch,
\* and without the runner no polling.
C26_LaunchRules ==
    /\ Cardinality(SimEvs("launch")) <= 1
    /\ \A i \in SimEvs("launch") :
           /\ i = 3
           /\ simLog[1] = SimEvent("status", FALSE)
           /\ simLog[2] = SimEvent("listApps", TRUE)
           /\ WDA_RUNNER \in simApps
    /\ (Len(simLog) >= 1 /\ simLog[1].ok) => SimEvs("launch") = {}
    /\ NotInstalledSeen => SimEvs("launch") = {} /\ SimEvs("poll") = {}

\* C26: the launch rules, and a call that found the runner not installed ends
\* with an ActionableError.
C26_LaunchOnceOnlyWhenInstalled ==
    /\ C26_LaunchRules
    /\ (NotInstalledSeen /\ simPc = "done") => simResult.kind = "ActionableError"

\* C26 amended: the launch rules, and a call that found the runner not installed
\* asks the liveness endpoint once more and ends with the ActionableError unless
\* the agent answers this time; then it issues its request.
C26_LaunchOnceFailUnlessLive ==
    /\ C26_LaunchRules
    /\ (NotInstalledSeen /\ simPc = "done") =>
           /\ Len(simLog) >= 3
           /\ simLog[3].ev = "status"
           /\ IF simLog[3].ok
              THEN Len(simLog) = 4 /\ simLog[4].ev = "request"
              ELSE Len(simLog) = 3 /\ simResult = ActionableError(SimWdaMsg)

\* C26 witness: a call found the agent not live and the runner installed, and
\* launched it once.
C26_Witness ==
    /\ simPc = "done"
    /\ LaunchedOk
    /\ Cardinality(SimEvs("launch")) = 1
    /\ Cardinality(SimEvs("poll")) >= 2

\* C26 witness of the other half: without the runner the call ended with the
\* ActionableError after three steps.
C26_WitnessNotInstalled ==
    /\ simPc = "done"
    /\ NotInstalledSeen
    /\ Len(simLog) = 3
    /\ simResult = ActionableError(SimWdaMsg)

\* C27: the polling is bounded: every liveness query of the loop is issued before
\* the deadline, none follows a positive answer, and there are no more of them
\* than sleeps fit into the 10 seconds; a call whose launch command went through
\* ends with its request to the agent, issued after a positive final liveness
\* query, or with the ActionableError about WebDriverAgent on the simulator.
C27_BoundedPolling ==
    /\ simPolledAt < WdaStartTimeout
    /\ \A i \in SimEvs("poll") : simLog[i].ok => \A j \in SimEvs("poll") : j <= i
    /\ Cardinality(SimEvs("poll")) <= WdaStartTimeout \div PollSleep
    /\ (LaunchedOk /\ simPc = "done") =>
           LET last == simLog[Len(simLog)] IN
           \/ /\ last.ev = "request"
              /\ simLog[Len(simLog) - 1] = SimEvent("status", TRUE)
           \/ /\ last = SimEvent("status", FALSE)
              /\ simResult = ActionableError(SimWdaMsg)
              /\ simResult.msg[1] = "WebDriverAgent is not running on simulator"

\* C27 witness: the agent never answered; the polling went on to the deadline and
\* the call ended with the ActionableError.
C27_Witness ==
    /\ simPc = "done"
    /\ LaunchedOk
    /\ simNow >= WdaStartTimeout
    /\ Cardinality(SimEvs("poll")) = WdaStartTimeout \div PollSleep
    /\ simResult = ActionableError(SimWdaMsg)

\* C27 witness of the other end: a positive answer stopped the polling before
\* the deadline and the request was issued.
C27_WitnessLive ==
    /\ simPc = "done"
    /\ Cardinality(SimEvs("poll")) = 3
    /\ simNow < WdaStartTimeout
    /\ simLog[Len(simLog)].ev = "request"

(***************************************************************************)
(* Claims about AndroidRobot.getUiAutomatorDump                            *)
(***************************************************************************)
AllMarkers == \A i \in 1..Len(dumpLog) : dumpLog[i].marker

\* C28: one call runs the UI-dump tool at most 10 times, and again only after an
\* output with the marker; the first output without the marker ends the loop and
\* is what the call goes on with, XML or not; ten outputs with the marker end the
\* call with the ActionableError "Failed to get UIAutomator XML".
C28_AtMostTenDumps ==
    /\ Len(dumpLog) <= 10
    /\ \A i \in 2..Len(dumpLog) : dumpLog[i - 1].marker
    /\ \A i \in 1..Len(dumpLog) :
           ~dumpLog[i].marker =>
               /\ i = Len(dumpLog)
               /\ dumpPc = "done"
               /\ dumpResult.kind = IF dumpLog[i].xml THEN "ok" ELSE "Error"
    /\ (Len(dumpLog) = 10 /\ AllMarkers /\ dumpPc = "done") =>
           dumpResult = ActionableError(<<"Failed to get UIAutomator XML">>)
    /\ dumpResult.kind = "ActionableError" => Len(dumpLog) = 10 /\ AllMarkers

\* C28 witness: ten outputs with the marker, and the call has failed.
C28_Witness ==
    /\ dumpPc = "done"
    /\ Len(dumpLog) = 10
    /\ AllMarkers
    /\ dumpResult.kind = "ActionableError"

\* C28 witness of the other end: after two outputs with the marker one without
\* it, and without XML, ended the loop.
C28_WitnessMalformed ==
    /\ dumpPc = "done"
    /\ Len(dumpLog) = 3
    /\ ~dumpLog[3].marker
    /\ ~dumpLog[3].xml

====
